---- MODULE Spec2Model ----
(***************************************************************************)
(* Model of the pi-ptc extension: the host side of one code_execution      *)
(* call (CodeExecutor.execute driving an RpcProtocol over the guest        *)
(* process's standard streams), the tool registry, truncateOutput and the  *)
(* sandbox backends.  Spec explores scripts that print and finish,         *)
(* SpecCalls scripts that call tools, SpecLines scripts that print values  *)
(* of every shape, SpecRegistry executions during which tools are          *)
(* registered, SpecTruncate truncateOutput on its own, SpecSandbox the     *)
(* sandbox backend under overlapping calls and SpecSequential the Docker   *)
(* backend under executions that follow one another.                       *)
(*                                                                         *)
(* JavaScript strings are TLA+ strings; `null` exit codes are the string   *)
(* "null"; exit codes are kept in their decimal string form, which is the  *)
(* form the code interpolates into its messages.                           *)
(***************************************************************************)
EXTENDS Integers, Sequences, FiniteSets, TLC

\* ------------------------------------------------------------------ bounds
\* number of generateToolWrappers calls observed
MaxCalls == 3
\* number of stdout lines the guest writes in one execution
MaxLines == 2
\* number of stderr chunks the guest writes in one execution
MaxStderr == 1
\* last instant of the wall clock, in milliseconds
MaxNow == 280000
\* number of times one tool name is registered in a session
MaxGenerations == 2
\* number of getOrCreateContainer calls in a session
MaxAcquires == 3
\* number of getOrCreateContainer calls that may overlap
MaxOverlap == 2
\* number of cleanup() calls in a session
MaxCleanups == 2
\* last instant of the wall clock in the sandbox specification
MaxClock == 400000
\* how far below and above MAX_OUTPUT_SIZE the lengths of the outputs handed
\* to truncateOutput range
TruncSlack == 8

\* --------------------------------------------------------------- constants
\* sandbox-manager.ts: const EXECUTION_TIMEOUT = 270_000
EXECUTION_TIMEOUT == 270000
\* rpc-protocol.ts: setTimeout(..., 5000) in the abort handler
KILL_GRACE == 5000
\* utils.ts: const MAX_OUTPUT_SIZE = 100_000
MAX_OUTPUT_SIZE == 100000

\* sandbox-manager.ts: setInterval(..., 60_000) in startCleanupTimer
REAPER_PERIOD == 60000

null == "null"

VARIABLES
  backend,        \* sandboxManager of the session: "none" | "docker" | "subprocess"
  pc,             \* CodeExecutor.execute: "idle" | "awaiting" | "returned" | "threw"
  signal,         \* options.signal: "none" (undefined) | "idle" | "aborted"
  abortListener,  \* the once-listener of RpcProtocol is registered on the signal
  proc,           \* the guest ChildProcess
  completion,     \* RpcProtocol.completionPromise
  stdout,         \* RpcProtocol.stdout
  stderr,         \* RpcProtocol.stderr
  currentLine,    \* RpcProtocol.currentLine
  inFlight,       \* tool_call requests whose executeTool promise is pending
  stdinWrites,    \* lines written to proc.stdin, oldest first
  updates,        \* texts handed to onUpdate, oldest first
  killTimer,      \* the 5 s timer of the abort handler
  now,            \* wall clock (ms)
  startedAt,      \* instant at which execute spawned the guest
  result,         \* what CodeExecutor.execute returned or threw
  nextId,         \* guest runtime: id of its next tool_call
  linesRead,      \* number of 'line' events handled
  stderrRead,     \* number of stderr 'data' events handled
  captured,       \* history: stdout lines taken as console text, oldest first
  callsRead,      \* history: the tool_call messages read (id, tool), oldest first
  dispatched,     \* history: ids for which executeTool was invoked
  finished,       \* history: (id, outcome) in the order the dispatches settled
  abortedEarly,   \* history: the signal was aborted while the execution was unsettled
  lastLine,       \* history: the stdout line the latest 'line' event carried
  registry,       \* ToolRegistry.tools: name -> generation of its execute (0: absent)
  toolsMap,       \* toolsMap of the execution: the catalogue snapshot, same shape
  truncArg,       \* the argument of the observed truncateOutput call
  truncRet,       \* what that call returned
  containerId,    \* DockerSandbox.containerId: NoContainer (null) or the container's number
  lastUsed,       \* DockerSandbox.lastUsed (ms)
  cleanupInterval,\* DockerSandbox.cleanupInterval is set (the reaper timer runs)
  timerDue,       \* instant of the reaper timer's next callback
  acquires,       \* per call slot, where a getOrCreateContainer call stands
  acquired,       \* number of getOrCreateContainer calls begun
  reaping,        \* number of cleanupExpired calls awaiting their `docker stop`
  cleanupPc,      \* cleanup(): "idle" | "stopping"
  cleanupsDone,   \* number of cleanup() calls that returned
  containers,     \* number of containers `docker run` has created
  running,        \* the containers that are running
  stops,          \* per container, the number of `docker stop` commands issued
  lastGot,        \* history: the handle the latest completed acquire returned
  invocation,     \* the closure of one SandboxManager.execute call (see NoCall)
  reply,          \* what the code_execution tool returned or threw
  mounts,         \* cwd arguments of getOrCreateContainer and -v mounts (see NoMounts)
  wrapperCalls,   \* the generateToolWrappers calls so far: catalogue and source
  dockerHost,     \* Docker on the host when createSandbox probed it (see DockerHosts)
  guests,         \* per execution, the container its `docker exec` runs in (see NoGuest)
  shutdown,       \* the session_shutdown handler (see NoShutdown)
  piTools,        \* per name, how pi.getAllTools() lists the tool (see PiListings)
  listing         \* what the latest ToolRegistry.getAllTools call returned

vars == <<backend, pc, signal, abortListener, proc, completion, stdout, stderr,
          currentLine, inFlight, stdinWrites, updates, killTimer, now, startedAt,
          result, nextId, linesRead, stderrRead, captured, callsRead, dispatched,
          finished, abortedEarly, lastLine, registry, toolsMap, truncArg, truncRet,
          containerId, lastUsed, cleanupInterval, timerDue, acquires, acquired,
          reaping, cleanupPc, cleanupsDone, containers, running, stops, lastGot,
          invocation, reply, mounts, wrapperCalls, dockerHost, guests,
          shutdown, piTools, listing>>

\* ------------------------------------------------------------------ inputs
\* names a guest script may call
CallNames == {"read", "nope"}
\* the names in the tool catalogue snapshot taken by execute (toolsMap)
tools == {n \in CallNames : toolsMap[n] # 0}
\* the catalogue when the session starts: `read` is registered
StartRegistry == [n \in CallNames |-> IF n = "read" THEN 1 ELSE 0]
\* how pi.getAllTools() can list a name: not at all, without an execute
\* function, or with one
PiListings == {"absent", "bare", "callable"}
\* pi's own list when the session starts: the tools registered through it
StartPiTools == [n \in CallNames |-> IF StartRegistry[n] # 0 THEN "callable" ELSE "absent"]
\* the order in which the names are iterated
NameOrder == <<"read", "nope">>
\* no execution has taken a snapshot yet
NoTools == [n \in CallNames |-> 0]
\* whether the caller registered a progress observer
onUpdate == TRUE
\* userCode.split("\n").length
userCodeLines == 2

\* DockerSandbox.containerId = null: containers are numbered from 1
NoContainer == 0
\* the call slots of getOrCreateContainer
Slots == 1..MaxOverlap

Pending == [state |-> "pending", value |-> ""]

\* A stdout line: its raw text and what JSON.parse makes of it.
\*   json = "throws"  JSON.parse(raw) throws (console text)
\*   json = "null"    JSON.parse(raw) is null
\*   json = "other"   a JSON value that is no tagged message (123, [], {"type":"init"})
\*   json = "msg"     an object whose `type` is msg.type
Line(raw, json, msg) == [raw |-> raw, json |-> json, msg |-> msg]
Msg(type, tool, text, tb, n) ==
  [type |-> type, id |-> 0, tool |-> tool, text |-> text, tb |-> tb, n |-> n]
NoMsg == Msg("", "", "", "", 0)

ConsoleLines == { Line(t, "throws", NoMsg) : t \in {"", "a"} }
OddJsonLines ==
  { Line("null", "null", NoMsg) }
    \cup { Line(t, "other", NoMsg) : t \in {"123", "\"hi\"", "[1]", "{}", "{\"type\":\"init\"}"} }
ToolCallLines == { Line("{tool_call}", "msg", Msg("tool_call", t, "", "", 0)) : t \in CallNames }
NoticeLines ==
  { Line("{execution_progress}", "msg", Msg("execution_progress", "", "", "", 1)),
    Line("{update}", "msg", Msg("update", "", "working", "", 0)) }
TerminalLines ==
  { Line("{complete}", "msg", Msg("complete", "", "2", "", 0)) }
  \cup { Line("{error}", "msg", Msg("error", "", "boom", tb, 0)) : tb \in {"", "Traceback"} }
  \cup { Line("{error}", "msg",
               Msg("error", "", "retry after Python execution error", "Traceback", 0)) }

GuestLines == ConsoleLines \cup OddJsonLines \cup ToolCallLines \cup NoticeLines \cup TerminalLines

\* lines of the scripts explored under Spec: console text and the two
\* terminal messages
ScriptLines ==
  { l \in GuestLines :
      \/ l.json = "throws"
      \/ l.json = "msg" /\ l.msg.type = "complete"
      \/ l.json = "msg" /\ l.msg.type = "error" /\ l.msg.tb # "" }

\* lines of the scripts explored under SpecCalls: tool calls, progress and
\* `complete`
CallLines ==
  { l \in GuestLines :
      l.json = "msg" /\ l.msg.type \in {"tool_call", "execution_progress", "complete"} }


\* ------------------------------------------------------- pure helpers
\* String.prototype.includes
includes(s, sub) ==
  \E i \in 1..(Len(s) - Len(sub) + 1) : SubSeq(s, i, i + Len(sub) - 1) = sub

\* a cut that keeps one character less than the ceiling
truncateOutputShort(output) ==
  IF Len(output) < MAX_OUTPUT_SIZE
    THEN output
    ELSE SubSeq(output, 1, MAX_OUTPUT_SIZE - 1)
           \o "\n\n[Output truncated - showing first " \o ToString(MAX_OUTPUT_SIZE)
           \o " characters of " \o ToString(Len(output)) \o "]"

truncateOutput(output) ==
  IF Len(output) <= MAX_OUTPUT_SIZE
    THEN output
    ELSE SubSeq(output, 1, MAX_OUTPUT_SIZE)
           \o "\n\n[Output truncated - showing first " \o ToString(MAX_OUTPUT_SIZE)
           \o " characters of " \o ToString(Len(output)) \o "]"

\* formatPythonError(message) as execute calls it (no traceback argument)
formatPythonError(message) == "Python execution error: " \o message

\* a rejection that overwrites whatever the promise already holds
completionRejectOverwrites(c, message) == [state |-> "rejected", value |-> message]

\* settling a promise that is already settled is a no-op
completionResolve(c, value) ==
  IF c.state = "pending" THEN [state |-> "resolved", value |-> value] ELSE c

completionReject(c, message) ==
  IF c.state = "pending" THEN [state |-> "rejected", value |-> message] ELSE c

\* a kill that signals a process that is gone
killEvenAfterExit(p, sig) == [p EXCEPT !.signals = Append(@, sig)]

\* ChildProcess.kill: the signal reaches the process only while it is alive
kill(p, sig) ==
  IF p.state = "running" THEN [p EXCEPT !.signals = Append(@, sig)] ELSE p

ToolResult(id, content, hasError, error) ==
  [type |-> "tool_result", id |-> id, content |-> content,
   hasError |-> hasError, error |-> error]

\* a send that writes its line a second time
sendTwice(writes, msg, p) ==
  IF ~p.stdinDestroyed THEN Append(Append(writes, msg), msg) ELSE writes

\* RpcProtocol.send: the line is written unless stdin is gone
send(writes, msg, p) ==
  IF ~p.stdinDestroyed THEN Append(writes, msg) ELSE writes

\* the content array a tool returns for one request
ToolOutput(req) == "[" \o req.tool \o ":" \o ToString(req.id) \o "]"

\* how the awaited executeTool(...) call can end
DispatchOutcomes == {"content", "nocontent", "undefined", "throws"}

\* err.message of the failure caught by handleToolCall: the dispatcher's own
\* error, or the TypeError of reading .content of an undefined result
FailureMessage(outcome) ==
  IF outcome = "undefined"
    THEN "Cannot read properties of undefined (reading 'content')"
    ELSE "tool failed"

\* a reply that reports a failed dispatch as an empty success
DispatchReplySwallowsError(req, outcome) ==
  IF outcome = "content"
    THEN ToolResult(req.id, ToolOutput(req), FALSE, "")
    ELSE ToolResult(req.id, "[]", FALSE, "")

\* a reply correlated by arrival sequence: the n-th line written answers
\* the n-th request
DispatchReplyBySequence(req, outcome) ==
  LET seqId == Len(stdinWrites) + 1
  IN CASE outcome = "content"   -> ToolResult(seqId, ToolOutput(req), FALSE, "")
       [] outcome = "nocontent" -> ToolResult(seqId, "[]", FALSE, "")
       [] OTHER                 -> ToolResult(seqId, "[]", TRUE, FailureMessage(outcome))

\* the tool_result handleToolCall writes once executeTool has settled
DispatchReply(req, outcome) ==
  CASE outcome = "content"   -> ToolResult(req.id, ToolOutput(req), FALSE, "")
    [] outcome = "nocontent" -> ToolResult(req.id, "[]", FALSE, "")
    [] outcome = "undefined" -> ToolResult(req.id, "[]", TRUE, FailureMessage(outcome))
    [] outcome = "throws"    -> ToolResult(req.id, "[]", TRUE, FailureMessage(outcome))

UnknownToolReply(msg) == ToolResult(msg.id, "[]", TRUE, "Unknown tool: " \o msg.tool)

\* the catch branch of handleMessage
AppendConsole(buf, raw) == IF buf # "" THEN buf \o "\n" \o raw ELSE raw

NoTimer == [armed |-> FALSE, at |-> 0]
NoProc == [state |-> "none", where |-> "none", exitCode |-> null,
           stdinDestroyed |-> FALSE, stdioOpen |-> FALSE, signals |-> <<>>]
NoResult == [kind |-> "none", text |-> ""]
\* SandboxManager.execute has not been called: its promise, the locals
\* stdout, stderr and killed, whether timeoutId is pending, whether the abort
\* handler and the process handlers are registered, and the instants of the
\* pending 5 s timers
NoCall == [phase |-> "none", promise |-> Pending, stdout |-> "", stderr |-> "",
           killed |-> FALSE, timeoutId |-> FALSE, abortHandler |-> FALSE,
           handlers |-> FALSE, grace |-> {}]

\* ctx.cwd of the session, and another directory a later call may pass
SessionCwd == "/proj/a"
Cwds == {SessionCwd, "/proj/b"}
NoCwd == ""
\* no getOrCreateContainer call so far: the cwd argument of the call in each
\* slot, the directory each container mounts at /workspace, and the cwd
\* argument of the call the last handle was returned to
NoMounts == [asked |-> [i \in Slots |-> NoCwd],
             of |-> [c \in 1..MaxAcquires |-> NoCwd],
             got |-> NoCwd]

\* the code_execution tool has not returned
NoReply == [kind |-> "none", text |-> ""]

\* String.prototype.repeat
RECURSIVE repeat(_, _)
repeat(c, n) ==
  IF n = 0 THEN ""
  ELSE IF n % 2 = 0 THEN LET half == repeat(c, n \div 2) IN half \o half
  ELSE c \o repeat(c, n - 1)

\* an output made of `head` characters "a" followed by `tail` characters "b"
Output(head, tail) ==
  [head |-> head, tail |-> tail, text |-> repeat("a", head) \o repeat("b", tail)]
NoArg == Output(0, 0)
NoRet == [returned |-> FALSE, text |-> ""]

\* outputs whose length is around MAX_OUTPUT_SIZE, and the 150,000 characters
\* of the documented example
TruncOutputs ==
  { Output(head, tail) : head \in (MAX_OUTPUT_SIZE - TruncSlack)..MAX_OUTPUT_SIZE,
                         tail \in 0..TruncSlack }
    \cup { Output(MAX_OUTPUT_SIZE, 50000), Output(1, 0) }
\* no 'line' event yet
NoLine == [raw |-> "", json |-> "none", msg |-> NoMsg]

\* ------------------------------------------------------------------- Init
\* the executor of a session before its first execution
SessionStart ==
  /\ pc = "idle"
  /\ signal \in {"none", "idle"}
  /\ abortListener = FALSE
  /\ proc = NoProc
  /\ completion = Pending
  /\ stdout = ""
  /\ stderr = ""
  /\ currentLine = 0
  /\ inFlight = {}
  /\ stdinWrites = <<>>
  /\ updates = <<>>
  /\ killTimer = NoTimer
  /\ now = 0
  /\ startedAt = 0
  /\ result = NoResult
  /\ nextId = 1
  /\ linesRead = 0
  /\ stderrRead = 0
  /\ captured = <<>>
  /\ callsRead = <<>>
  /\ dispatched = {}
  /\ finished = <<>>
  /\ abortedEarly = FALSE
  /\ lastLine = NoLine
  /\ registry = StartRegistry
  /\ toolsMap = NoTools

\* no call of truncateOutput is being observed
UtilStart ==
  /\ truncArg = NoArg
  /\ truncRet = NoRet
  /\ wrapperCalls = <<>>
  /\ piTools = StartPiTools
  /\ listing = <<>>

\* the sandbox backend b right after its construction
\* the session_shutdown handler before the event: `pc` is where the handler
\* is, `busy` whether a code_execution call was in progress when it began
NoShutdown == [pc |-> "none", busy |-> FALSE]

\* an execution with no `docker exec` process
NoGuest == [in |-> NoContainer, at |-> 0, killed |-> FALSE]

SandboxStart(b) ==
  /\ containerId = NoContainer
  /\ lastUsed = 0
  /\ cleanupInterval = (b = "docker")
  /\ timerDue = IF b = "docker" THEN REAPER_PERIOD ELSE 0
  /\ acquires = [i \in Slots |-> "idle"]
  /\ acquired = 0
  /\ reaping = 0
  /\ cleanupPc = "idle"
  /\ cleanupsDone = 0
  /\ containers = 0
  /\ running = {}
  /\ stops = [c \in NoContainer..MaxAcquires |-> 0]
  /\ lastGot = NoContainer
  /\ invocation = NoCall
  /\ reply = NoReply
  /\ mounts = NoMounts
  /\ dockerHost = IF b = "docker" THEN "usable"
                  ELSE IF b = "subprocess" THEN "absent" ELSE "unprobed"
  /\ guests = [i \in Slots |-> NoGuest]
  /\ shutdown = NoShutdown

Init ==
  /\ backend = "none"
  /\ SessionStart
  /\ UtilStart
  /\ SandboxStart("none")

\* state that no step of an execution changes
utilVars == <<truncArg, truncRet, wrapperCalls, piTools, listing>>
\* the DockerSandbox, except its reaper timer
containerVars == <<containerId, lastUsed, acquires, acquired, reaping, cleanupPc,
                   cleanupsDone, containers, running, stops, lastGot, mounts>>
timerVars == <<cleanupInterval, timerDue, dockerHost, shutdown>>
extVars == <<registry, utilVars, containerVars, invocation, reply, guests>>
rpcVars == <<completion, stdout, stderr, currentLine, inFlight, stdinWrites, updates>>
histVars == <<captured, callsRead, dispatched, finished>>

\* ---------------------------------------------------------------- actions
\* Docker on the host: not installed, installed with its daemon down,
\* installed with its daemon running
DockerHosts == {"absent", "stopped", "usable"}

\* isDockerAvailable: `docker --version` succeeds wherever the client is installed
isDockerAvailable(host) == host # "absent"

\* createSandbox: Docker when `docker --version` succeeds, else subprocess
createSandboxOn(hosts) ==
  /\ backend = "none"
  /\ \E host \in hosts :
       LET dockerAvailable == isDockerAvailable(host)
       IN /\ dockerHost' = host
          /\ UNCHANGED shutdown
          /\ backend' = IF dockerAvailable THEN "docker" ELSE "subprocess"
          /\ cleanupInterval' = dockerAvailable
          /\ timerDue' = IF dockerAvailable THEN now + REAPER_PERIOD ELSE timerDue
  /\ UNCHANGED <<pc, signal, abortListener, proc, killTimer, now, startedAt, result,
                 nextId, linesRead, stderrRead, abortedEarly>>
  /\ UNCHANGED rpcVars
  /\ UNCHANGED histVars
  /\ UNCHANGED <<lastLine, toolsMap>>
  /\ UNCHANGED extVars

\* createSandbox on a host without Docker or with a working one
createSandbox == createSandboxOn({"absent", "usable"})

\* ToolRegistry.getAllTools: the registered tools with their execute functions
getAllTools == registry

\* ToolRegistry.executeTool: the execute function a dispatch of `name` invokes
executeTool(name) == registry[name]

\* where CodeExecutor.execute starts the combined program
SpawnPlace(b) == "host"

\* the module's codeExecutor is not null: ptcExtension has set it and the
\* session_shutdown handler has not cleared it
codeExecutorSet == backend # "none" /\ shutdown.pc # "done"

\* CodeExecutor.execute up to `await rpc.waitForCompletion()`:
\* spawn("python3", ...) and new RpcProtocol(...)
execute ==
  /\ codeExecutorSet
  /\ pc = "idle"
  /\ proc' = [state |-> "running", where |-> SpawnPlace(backend), exitCode |-> null,
              stdinDestroyed |-> FALSE, stdioOpen |-> TRUE, signals |-> <<>>]
  /\ completion' = Pending
  /\ abortListener' = (signal # "none")
  /\ startedAt' = now
  /\ pc' = "awaiting"
  /\ toolsMap' = getAllTools
  /\ UNCHANGED <<backend, signal, stdout, stderr, currentLine, inFlight, stdinWrites,
                 updates, killTimer, now, result, nextId, linesRead, stderrRead,
                 abortedEarly>>
  /\ UNCHANGED histVars
  /\ UNCHANGED lastLine
  /\ UNCHANGED extVars
  /\ UNCHANGED timerVars


\* the text handleMessage hands to onUpdate for an execution_progress message
ProgressText(msg) ==
  "Executing line " \o ToString(msg.n) \o "/" \o ToString(userCodeLines)

\* the message rejected on an `error` message
GuestErrorText(msg) == msg.text \o (IF msg.tb # "" THEN "\n" \o msg.tb ELSE "")

\* an assembly that already cuts the text at the ceiling
FinalOutputTruncated(buf, msg) ==
  truncateOutput(IF buf # "" THEN buf \o "\n" \o msg.text ELSE msg.text)

\* the text resolved on a `complete` message
FinalOutput(buf, msg) == IF buf # "" THEN buf \o "\n" \o msg.text ELSE msg.text

\* a handleToolCall without the catalogue lookup: every name is dispatched
handleToolCallNoLookup(msg) ==
  /\ callsRead' = Append(callsRead, [id |-> msg.id, tool |-> msg.tool])
  /\ inFlight' = inFlight \cup {[id |-> msg.id, tool |-> msg.tool,
                                  impl |-> executeTool(msg.tool)]}
  /\ dispatched' = dispatched \cup {msg.id}
  /\ UNCHANGED <<stdinWrites, completion, stdout, currentLine, updates, captured, finished>>

\* handleToolCall up to its first suspension: an unknown tool is answered at
\* once, a known one leaves an executeTool call in flight
handleToolCall(msg) ==
  /\ callsRead' = Append(callsRead, [id |-> msg.id, tool |-> msg.tool])
  /\ IF msg.tool \notin tools
       THEN /\ stdinWrites' = send(stdinWrites, UnknownToolReply(msg), proc)
            /\ UNCHANGED <<inFlight, dispatched>>
       ELSE /\ inFlight' = inFlight \cup {[id |-> msg.id, tool |-> msg.tool,
                                            impl |-> executeTool(msg.tool)]}
            /\ dispatched' = dispatched \cup {msg.id}
            /\ UNCHANGED stdinWrites
  /\ UNCHANGED <<completion, stdout, currentLine, updates, captured, finished>>

\* RpcProtocol.handleMessage(line)
\* how a call of the progress observer can end
ObserverOutcomes == {"returns", "throws"}

\* what is left of a notice once onUpdate has been called: an exception of
\* the observer lands in the catch branch, which captures the line
afterObserver(l, observer) ==
  IF onUpdate /\ observer = "throws"
    THEN /\ stdout' = AppendConsole(stdout, l.raw)
         /\ captured' = Append(captured, l.raw)
    ELSE UNCHANGED <<stdout, captured>>

\* RpcProtocol.handleMessage(line), `observer` being how onUpdate ends if called
handleMessage(l, msg, observer) ==
  CASE l.json = "throws" \/ l.json = "null" ->
         \* JSON.parse threw, or reading .type of null threw: the catch branch
         /\ stdout' = AppendConsole(stdout, l.raw)
         /\ captured' = Append(captured, l.raw)
         /\ UNCHANGED <<completion, currentLine, inFlight, stdinWrites, updates,
                        callsRead, dispatched, finished>>
    [] l.json = "other" ->
         \* no case of the switch matches
         /\ UNCHANGED <<completion, stdout, currentLine, inFlight, stdinWrites, updates>>
         /\ UNCHANGED histVars
    [] l.json = "msg" /\ msg.type = "tool_call" -> handleToolCall(msg)
    [] l.json = "msg" /\ msg.type = "execution_progress" ->
         /\ currentLine' = msg.n
         /\ updates' = IF onUpdate THEN Append(updates, ProgressText(msg)) ELSE updates
         /\ afterObserver(l, observer)
         /\ UNCHANGED <<completion, inFlight, stdinWrites>>
         /\ UNCHANGED <<callsRead, dispatched, finished>>
    [] l.json = "msg" /\ msg.type = "update" ->
         /\ updates' = IF onUpdate THEN Append(updates, msg.text) ELSE updates
         /\ afterObserver(l, observer)
         /\ UNCHANGED <<completion, currentLine, inFlight, stdinWrites>>
         /\ UNCHANGED <<callsRead, dispatched, finished>>
    [] l.json = "msg" /\ msg.type = "complete" ->
         /\ completion' = completionResolve(completion, FinalOutput(stdout, msg))
         /\ UNCHANGED <<stdout, currentLine, inFlight, stdinWrites, updates>>
         /\ UNCHANGED histVars
    [] l.json = "msg" /\ msg.type = "error" ->
         /\ completion' = completionReject(completion, GuestErrorText(msg))
         /\ UNCHANGED <<stdout, currentLine, inFlight, stdinWrites, updates>>
         /\ UNCHANGED histVars

\* guest runtime: the id its next tool_call carries, unique within the execution
FreshId == nextId

\* lineReader 'line' event: one of `lines`, written by the guest while it was
\* alive, the observer ending in one of `outcomes`
OnLineObserved(lines, outcomes) ==
  /\ proc.stdioOpen
  /\ linesRead < MaxLines
  /\ \E l \in lines : \E observer \in outcomes :
       LET msg == [l.msg EXCEPT !.id = IF l.msg.type = "tool_call" THEN FreshId ELSE 0]
       IN /\ handleMessage(l, msg, observer)
          /\ lastLine' = [l EXCEPT !.msg = msg]
          /\ nextId' = IF l.msg.type = "tool_call" THEN nextId + 1 ELSE nextId
  /\ linesRead' = linesRead + 1
  /\ UNCHANGED <<backend, pc, signal, abortListener, proc, stderr, killTimer, now,
                 startedAt, result, stderrRead, abortedEarly, toolsMap>>
  /\ UNCHANGED extVars
  /\ UNCHANGED timerVars

\* a 'line' event under an observer that returns
OnLineFrom(lines) == OnLineObserved(lines, {"returns"})

OnLine == OnLineFrom(ScriptLines)

OnCallLine == OnLineFrom(CallLines)

\* the awaited executeTool call of one request settles and handleToolCall
\* writes its tool_result
DispatchFinish ==
  /\ \E req \in inFlight : \E outcome \in DispatchOutcomes :
       /\ stdinWrites' = send(stdinWrites, DispatchReply(req, outcome), proc)
       /\ inFlight' = inFlight \ {req}
       /\ finished' = Append(finished, [id |-> req.id, outcome |-> outcome])
  /\ UNCHANGED <<backend, pc, signal, abortListener, proc, completion, stdout, stderr,
                 currentLine, updates, killTimer, now, startedAt, result, nextId,
                 linesRead, stderrRead, captured, callsRead, dispatched, abortedEarly,
                 lastLine, toolsMap>>
  /\ UNCHANGED extVars
  /\ UNCHANGED timerVars

\* proc.stderr 'data' event
OnStderr ==
  /\ proc.stdioOpen
  /\ stderrRead < MaxStderr
  /\ stderr' = stderr \o "Err"
  /\ stderrRead' = stderrRead + 1
  /\ UNCHANGED <<backend, pc, signal, abortListener, proc, completion, stdout,
                 currentLine, inFlight, stdinWrites, updates, killTimer, now, startedAt,
                 result, nextId, linesRead, abortedEarly>>
  /\ UNCHANGED histVars
  /\ UNCHANGED <<lastLine, toolsMap>>
  /\ UNCHANGED extVars
  /\ UNCHANGED timerVars

\* an exit message that ignores the captured stderr text
ExitErrorTextCodeOnly(err, code) == "Process exited with code " \o code

\* the exit handler's message: this.stderr || `Process exited with code ${code}`
ExitErrorText(err, code) ==
  IF err # "" THEN err ELSE "Process exited with code " \o code

\* proc 'exit' event; Node destroys proc.stdin before it emits the event,
\* while stdout and stderr may still hold unread data
OnExit ==
  /\ proc.state = "running"
  /\ \E code \in {"0", "1", null} :
       /\ proc' = [proc EXCEPT !.state = "exited", !.exitCode = code,
                               !.stdinDestroyed = TRUE]
       /\ completion' =
            IF code # "0" /\ code # null
              THEN completionReject(completion, ExitErrorText(stderr, code))
              ELSE completion
  /\ UNCHANGED <<backend, pc, signal, abortListener, stdout, stderr, currentLine,
                 inFlight, stdinWrites, updates, killTimer, now, startedAt, result,
                 nextId, linesRead, stderrRead, abortedEarly>>
  /\ UNCHANGED histVars
  /\ UNCHANGED <<lastLine, toolsMap>>
  /\ UNCHANGED extVars
  /\ UNCHANGED timerVars

\* proc 'error' event: the interpreter could not be spawned
OnProcError ==
  /\ proc.state = "running"
  /\ linesRead = 0 /\ stderrRead = 0
  /\ proc' = [proc EXCEPT !.state = "failed", !.stdinDestroyed = TRUE,
                          !.stdioOpen = FALSE]
  /\ completion' = completionReject(completion, "Process error: " \o "spawn python3 ENOENT")
  /\ UNCHANGED <<backend, pc, signal, abortListener, stdout, stderr, currentLine,
                 inFlight, stdinWrites, updates, killTimer, now, startedAt, result,
                 nextId, linesRead, stderrRead, abortedEarly>>
  /\ UNCHANGED histVars
  /\ UNCHANGED <<lastLine, toolsMap>>
  /\ UNCHANGED extVars
  /\ UNCHANGED timerVars

\* the guest's stdout and stderr reach end of file after it has exited
StdioClose ==
  /\ proc.state = "exited"
  /\ proc.stdioOpen
  /\ proc' = [proc EXCEPT !.stdioOpen = FALSE]
  /\ UNCHANGED <<backend, pc, signal, abortListener, killTimer, now, startedAt, result,
                 nextId, linesRead, stderrRead, abortedEarly>>
  /\ UNCHANGED rpcVars
  /\ UNCHANGED histVars
  /\ UNCHANGED <<lastLine, toolsMap>>
  /\ UNCHANGED extVars
  /\ UNCHANGED timerVars


\* the signal's 'abort' event.  AbortSignal fires it once, and only for the
\* listeners registered at that moment; the RpcProtocol listener is {once: true}.
abort ==
  /\ signal = "idle"
  /\ signal' = "aborted"
  /\ abortedEarly' = (abortedEarly \/ (pc \in {"idle", "awaiting"} /\ completion.state = "pending"))
  /\ IF abortListener
       THEN /\ proc' = kill(proc, "SIGTERM")
            /\ killTimer' = [armed |-> TRUE, at |-> now + KILL_GRACE]
            /\ completion' = completionReject(completion, "Execution aborted")
            /\ abortListener' = FALSE
       ELSE UNCHANGED <<proc, killTimer, completion, abortListener>>
  /\ UNCHANGED <<backend, pc, stdout, stderr, currentLine, inFlight, stdinWrites,
                 updates, now, startedAt, result, nextId, linesRead, stderrRead>>
  /\ UNCHANGED histVars
  /\ UNCHANGED <<lastLine, toolsMap>>
  /\ UNCHANGED extVars
  /\ UNCHANGED timerVars

\* the setTimeout callback of the abort handler
KillTimerFire ==
  /\ killTimer.armed
  /\ now >= killTimer.at
  /\ proc' = IF proc.exitCode = null THEN kill(proc, "SIGKILL") ELSE proc
  /\ killTimer' = NoTimer
  /\ UNCHANGED <<backend, pc, signal, abortListener, now, startedAt, result, nextId,
                 linesRead, stderrRead, abortedEarly>>
  /\ UNCHANGED rpcVars
  /\ UNCHANGED histVars
  /\ UNCHANGED <<lastLine, toolsMap>>
  /\ UNCHANGED extVars
  /\ UNCHANGED timerVars

\* instants the clock stops at: the deadline of the armed kill timer, and the
\* end of the grace window that follows the execution ceiling
Instants ==
  (IF killTimer.armed THEN {killTimer.at} ELSE {})
    \cup (IF pc # "idle" THEN {startedAt + EXECUTION_TIMEOUT + KILL_GRACE} ELSE {})

\* the wall clock advances to the next instant; a due timer runs first
Tick ==
  /\ ~(killTimer.armed /\ now >= killTimer.at)
  /\ LET later == {t \in Instants : t > now /\ t <= MaxNow}
     IN /\ later # {}
        /\ now' = CHOOSE t \in later : \A u \in later : t <= u
  /\ UNCHANGED <<backend, pc, signal, abortListener, proc, killTimer, startedAt, result,
                 nextId, linesRead, stderrRead, abortedEarly>>
  /\ UNCHANGED rpcVars
  /\ UNCHANGED histVars
  /\ UNCHANGED <<lastLine, toolsMap>>
  /\ UNCHANGED extVars
  /\ UNCHANGED timerVars

\* CodeExecutor.execute resumes after `await rpc.waitForCompletion()`: success
executeReturn ==
  /\ pc = "awaiting"
  /\ completion.state = "resolved"
  /\ result' = [kind |-> "value", text |-> truncateOutput(completion.value)]
  /\ pc' = "returned"
  /\ UNCHANGED <<backend, signal, abortListener, proc, killTimer, now, startedAt,
                 nextId, linesRead, stderrRead, abortedEarly>>
  /\ UNCHANGED rpcVars
  /\ UNCHANGED histVars
  /\ UNCHANGED <<lastLine, toolsMap>>
  /\ UNCHANGED extVars
  /\ UNCHANGED timerVars

\* CodeExecutor.execute resumes after `await rpc.waitForCompletion()`: the catch
executeThrow ==
  /\ pc = "awaiting"
  /\ completion.state = "rejected"
  /\ result' = [kind |-> "error",
                text |-> IF includes(completion.value, "Python execution error")
                           THEN completion.value
                           ELSE formatPythonError(completion.value)]
  /\ pc' = "threw"
  /\ UNCHANGED <<backend, signal, abortListener, proc, killTimer, now, startedAt,
                 nextId, linesRead, stderrRead, abortedEarly>>
  /\ UNCHANGED rpcVars
  /\ UNCHANGED histVars
  /\ UNCHANGED <<lastLine, toolsMap>>
  /\ UNCHANGED extVars
  /\ UNCHANGED timerVars

\* the execute of the code_execution tool resumes after
\* `await codeExecutor.execute(...)`: the content it returns, or the error
\* it throws
codeExecutionReturn ==
  /\ pc \in {"returned", "threw"}
  /\ reply = NoReply
  /\ reply' = IF pc = "returned"
                THEN [kind |-> "content",
                      text |-> IF result.text # "" THEN result.text ELSE "(No output)"]
                ELSE [kind |-> "error",
                      text |-> "Python execution failed: " \o result.text]
  /\ UNCHANGED <<backend, pc, signal, abortListener, proc, killTimer, now, startedAt,
                 result, nextId, linesRead, stderrRead, abortedEarly, lastLine, toolsMap,
                 registry, utilVars, containerVars, invocation, guests>>
  /\ UNCHANGED rpcVars
  /\ UNCHANGED histVars
  /\ UNCHANGED timerVars

\* the session after createSandbox found no Docker
InitCalls ==
  /\ backend = "subprocess"
  /\ SessionStart
  /\ UtilStart
  /\ SandboxStart("subprocess")

\* executions of scripts that call tools
NextCalls ==
  \/ execute
  \/ OnCallLine
  \/ DispatchFinish
  \/ OnExit
  \/ StdioClose
  \/ abort
  \/ KillTimerFire
  \/ Tick
  \/ executeReturn
  \/ executeThrow

SpecCalls == InitCalls /\ [][NextCalls]_vars

NextAnswers ==
  \/ execute
  \/ OnCallLine
  \/ DispatchFinish
  \/ OnExit
  \/ StdioClose
  \/ executeReturn
  \/ executeThrow

\* executions of scripts that call tools, every executeTool call settling in
\* the end
SpecAnswers == InitCalls /\ [][NextAnswers]_vars /\ WF_vars(DispatchFinish)

\* pi.registerTool as intercepted by the registry: the entry of `name` is
\* replaced by the new definition and its execute function
interceptRegisterTool ==
  /\ \E name \in CallNames :
       /\ registry[name] < MaxGenerations
       /\ registry' = [registry EXCEPT ![name] = @ + 1]
       \* this.originalRegisterTool(tool)
       /\ piTools' = [piTools EXCEPT ![name] = "callable"]
  /\ UNCHANGED <<backend, pc, signal, abortListener, proc, killTimer, now, startedAt,
                 result, nextId, linesRead, stderrRead, abortedEarly, lastLine, toolsMap>>
  /\ UNCHANGED rpcVars
  /\ UNCHANGED histVars
  /\ UNCHANGED <<truncArg, truncRet, wrapperCalls, listing>>
  /\ UNCHANGED containerVars
  /\ UNCHANGED timerVars
  /\ UNCHANGED <<invocation, reply, guests>>

\* executions during which extensions register tools
NextRegistry ==
  \/ interceptRegisterTool
  \/ execute
  \/ OnCallLine
  \/ DispatchFinish
  \/ OnExit
  \/ StdioClose
  \/ executeReturn
  \/ executeThrow

SpecRegistry == InitCalls /\ [][NextRegistry]_vars

\* a call truncateOutput(output)
callTruncateOutput ==
  /\ ~truncRet.returned
  /\ truncRet' = [returned |-> TRUE, text |-> truncateOutput(truncArg.text)]
  /\ UNCHANGED <<backend, pc, signal, abortListener, proc, killTimer, now, startedAt,
                 result, nextId, linesRead, stderrRead, abortedEarly, lastLine, toolsMap,
                 registry, truncArg, invocation, reply, wrapperCalls, guests, piTools,
                 listing>>
  /\ UNCHANGED rpcVars
  /\ UNCHANGED histVars
  /\ UNCHANGED containerVars
  /\ UNCHANGED timerVars

InitTruncate ==
  /\ backend = "subprocess"
  /\ SessionStart
  /\ truncArg \in TruncOutputs
  /\ truncRet = NoRet
  /\ wrapperCalls = <<>>
  /\ piTools = StartPiTools
  /\ listing = <<>>
  /\ SandboxStart("subprocess")

NextTruncate == callTruncateOutput

\* truncateOutput applied to outputs of every length around the ceiling
SpecTruncate == InitTruncate /\ [][NextTruncate]_vars

\* ------------------------------------------------------------ the sandbox
\* what no operation of the sandbox backend changes, the clock apart
callerVars == <<backend, pc, signal, abortListener, proc, killTimer, startedAt,
                result, nextId, linesRead, stderrRead, abortedEarly, lastLine,
                toolsMap, registry, invocation, reply>>
\* the same, with the `docker exec` processes of the executions
executorVars == <<callerVars, guests>>

\* a stopContainer that issues its command whether or not a handle is held
stopContainerUnguarded(handle) == {handle}

\* stopContainer: the handles it issues `docker stop` for; none when no
\* handle is held
stopContainer(handle) == IF handle = NoContainer THEN {} ELSE {handle}

\* execAsync(`docker stop <handle>`) is issued, and the container stops
dockerStop(targets) ==
  /\ stops' = [c \in DOMAIN stops |-> IF c \in targets THEN stops[c] + 1 ELSE stops[c]]
  /\ running' = running \ targets

\* a reuse test that passes over a container with an execution running in it
freshAndFree(idle) ==
  idle < EXECUTION_TIMEOUT /\ \A j \in Slots : guests[j].in # containerId

\* getOrCreateContainer's reuse test: Date.now() - this.lastUsed < EXECUTION_TIMEOUT
fresh(idle) == idle < EXECUTION_TIMEOUT

\* getOrCreateContainer up to its first await, seen from its caller
getOrCreateContainer(i, cwds) ==
  /\ backend = "docker"
  /\ acquires[i] = "idle"
  /\ acquired < MaxAcquires
  /\ acquired' = acquired + 1
  /\ \E cwd \in cwds :
       IF containerId # NoContainer /\ fresh(now - lastUsed)
         THEN \* reuse
              /\ lastUsed' = now
              /\ lastGot' = containerId
              /\ mounts' = [mounts EXCEPT !.got = cwd]
              /\ UNCHANGED <<acquires, stops, running>>
         ELSE IF containerId # NoContainer
           THEN \* await this.stopContainer()
                /\ dockerStop(stopContainer(containerId))
                /\ acquires' = [acquires EXCEPT ![i] = "stopping"]
                /\ mounts' = [mounts EXCEPT !.asked[i] = cwd]
                /\ UNCHANGED <<lastUsed, lastGot>>
           ELSE \* await execAsync(`docker run ...`)
                /\ acquires' = [acquires EXCEPT ![i] = "creating"]
                /\ mounts' = [mounts EXCEPT !.asked[i] = cwd]
                /\ UNCHANGED <<lastUsed, lastGot, stops, running>>
  /\ UNCHANGED <<containerId, reaping, cleanupPc, cleanupsDone, containers, now>>
  /\ UNCHANGED <<callerVars, rpcVars, histVars, utilVars, timerVars>>

\* getOrCreateContainer up to its first await
acquireBeginIn(i, cwds) == getOrCreateContainer(i, cwds) /\ UNCHANGED guests

\* getOrCreateContainer(cwd) called from the session's directory
acquireBegin(i) == acquireBeginIn(i, {SessionCwd})

\* getOrCreateContainer resumes after `await this.stopContainer()`: the handle
\* is dropped and `docker run` is issued
acquireStopped(i) ==
  /\ acquires[i] = "stopping"
  /\ containerId' = NoContainer
  /\ acquires' = [acquires EXCEPT ![i] = "creating"]
  /\ UNCHANGED <<lastUsed, acquired, reaping, cleanupPc, cleanupsDone, containers,
                 running, stops, lastGot, mounts, now>>
  /\ UNCHANGED <<executorVars, rpcVars, histVars, utilVars, timerVars>>

\* getOrCreateContainer resumes after `await execAsync("docker run ...")`:
\* the new handle is stored and returned, or the failure is thrown
containerCreated(i) ==
  /\ acquires[i] = "creating"
  /\ acquires' = [acquires EXCEPT ![i] = "idle"]
  /\ \E started \in (IF dockerHost = "usable" THEN BOOLEAN ELSE {FALSE}) :
       IF started
         THEN /\ containers' = containers + 1
              /\ running' = running \cup {containers + 1}
              /\ containerId' = containers + 1
              /\ lastUsed' = now
              /\ lastGot' = containers + 1
              /\ mounts' = [mounts EXCEPT !.of[containers + 1] = mounts.asked[i],
                                          !.got = mounts.asked[i],
                                          !.asked[i] = NoCwd]
         ELSE /\ mounts' = [mounts EXCEPT !.asked[i] = NoCwd]
              /\ UNCHANGED <<containers, running, containerId, lastUsed, lastGot>>
  /\ UNCHANGED <<acquired, reaping, cleanupPc, cleanupsDone, stops, now>>
  /\ UNCHANGED <<callerVars, rpcVars, histVars, utilVars, timerVars>>

\* getOrCreateContainer resumes after `await execAsync("docker run ...")`
acquireCreated(i) == containerCreated(i) /\ UNCHANGED guests

\* a reaper that takes every container for expired
expiredAlways(idle) == TRUE

\* cleanupExpired's test: Date.now() - this.lastUsed > EXECUTION_TIMEOUT
expired(idle) == idle > EXECUTION_TIMEOUT

\* the reaper timer's callback: cleanupExpired up to its await
cleanupExpired ==
  /\ cleanupInterval
  /\ now >= timerDue
  /\ timerDue' = timerDue + REAPER_PERIOD
  /\ IF containerId # NoContainer /\ expired(now - lastUsed)
       THEN /\ dockerStop(stopContainer(containerId))
            /\ reaping' = reaping + 1
       ELSE UNCHANGED <<stops, running, reaping>>
  /\ UNCHANGED <<containerId, lastUsed, cleanupInterval, dockerHost, shutdown, acquires,
                 acquired, cleanupPc,
                 cleanupsDone, containers, lastGot, mounts, now>>
  /\ UNCHANGED <<executorVars, rpcVars, histVars, utilVars>>

\* stopContainer called by cleanupExpired resumes after its await
reaperStopped ==
  /\ reaping > 0
  /\ reaping' = reaping - 1
  /\ containerId' = NoContainer
  /\ UNCHANGED <<lastUsed, acquires, acquired, cleanupPc, cleanupsDone, containers,
                 running, stops, lastGot, mounts, now>>
  /\ UNCHANGED <<executorVars, rpcVars, histVars, utilVars, timerVars>>

\* SandboxManager.cleanup() up to its first await; SubprocessSandbox.cleanup
\* has nothing to release
cleanupCall ==
  /\ backend \in {"docker", "subprocess"}
  /\ cleanupPc = "idle"
  /\ cleanupsDone < MaxCleanups
  /\ IF backend = "subprocess"
       THEN /\ cleanupsDone' = cleanupsDone + 1
            /\ UNCHANGED <<cleanupInterval, cleanupPc, stops, running>>
       ELSE /\ cleanupInterval' = FALSE
            /\ IF stopContainer(containerId) = {}
                 THEN /\ cleanupsDone' = cleanupsDone + 1
                      /\ UNCHANGED <<cleanupPc, stops, running>>
                 ELSE /\ dockerStop(stopContainer(containerId))
                      /\ cleanupPc' = "stopping"
                      /\ UNCHANGED cleanupsDone
  /\ UNCHANGED <<containerId, lastUsed, timerDue, dockerHost, acquires, acquired, reaping,
                 containers, lastGot, mounts, now>>
  /\ UNCHANGED <<executorVars, rpcVars, histVars, utilVars>>

\* cleanup() of the session's sandbox backend, up to its await
cleanup == cleanupCall /\ UNCHANGED shutdown

\* stopContainer called by cleanup() resumes after its await; cleanup returns
cleanupReturns ==
  /\ cleanupPc = "stopping"
  /\ containerId' = NoContainer
  /\ cleanupPc' = "idle"
  /\ cleanupsDone' = cleanupsDone + 1
  /\ UNCHANGED <<lastUsed, acquires, acquired, reaping, containers, running, stops,
                 lastGot, mounts, now>>
  /\ UNCHANGED <<executorVars, rpcVars, histVars, utilVars>>
  /\ UNCHANGED <<cleanupInterval, timerDue, dockerHost>>

\* stopContainer called by cleanup() resumes after its await; cleanup returns
cleanupStopped == cleanupReturns /\ UNCHANGED shutdown

\* instants the sandbox clock stops at: the reaper's next callback and the
\* two sides of the idle window of the latest use
SandboxInstants ==
  (IF cleanupInterval THEN {timerDue} ELSE {})
    \cup (IF lastGot # NoContainer
           THEN {lastUsed + EXECUTION_TIMEOUT - 1, lastUsed + EXECUTION_TIMEOUT,
                 lastUsed + EXECUTION_TIMEOUT + 1}
           ELSE {})

\* the wall clock advances to the next instant; a due reaper callback runs first
Advance ==
  /\ ~(cleanupInterval /\ now >= timerDue)
  /\ LET later == {t \in SandboxInstants : t > now /\ t <= MaxClock}
     IN /\ later # {}
        /\ now' = CHOOSE t \in later : \A u \in later : t <= u
  /\ UNCHANGED <<executorVars, rpcVars, histVars, utilVars, timerVars, containerVars>>

\* no getOrCreateContainer call is in progress
NoAcquireInProgress == \A i \in Slots : acquires[i] = "idle"

\* an execution that starts after the previous one has finished
acquireInSequence(i) == NoAcquireInProgress /\ acquireBegin(i)

\* the session's sandbox backend right after createSandbox
InitSandbox ==
  /\ backend \in {"docker", "subprocess"}
  /\ SessionStart
  /\ UtilStart
  /\ SandboxStart(backend)

NextSandbox ==
  \/ \E i \in Slots : acquireBegin(i)
  \/ \E i \in Slots : acquireStopped(i)
  \/ \E i \in Slots : acquireCreated(i)
  \/ cleanupExpired
  \/ reaperStopped
  \/ cleanup
  \/ cleanupStopped
  \/ Advance

\* the sandbox backend under acquires, reaper callbacks and cleanup calls
SpecSandbox == InitSandbox /\ [][NextSandbox]_vars

InitDocker ==
  /\ backend = "docker"
  /\ SessionStart
  /\ UtilStart
  /\ SandboxStart(backend)

NextSequential ==
  \/ \E i \in Slots : acquireInSequence(i)
  \/ \E i \in Slots : acquireStopped(i)
  \/ \E i \in Slots : acquireCreated(i)
  \/ cleanupExpired
  \/ reaperStopped
  \/ Advance

\* the Docker backend of a live session whose executions follow one another
SpecSequential == InitDocker /\ [][NextSequential]_vars

\* getOrCreateContainer(cwd) by executions that follow one another and pass
\* any directory
acquireInDirectory(i) == NoAcquireInProgress /\ acquireBeginIn(i, Cwds)

NextMounts ==
  \/ \E i \in Slots : acquireInDirectory(i)
  \/ \E i \in Slots : acquireStopped(i)
  \/ \E i \in Slots : acquireCreated(i)
  \/ cleanupExpired
  \/ reaperStopped
  \/ Advance

\* the Docker backend under executions that pass different directories
SpecMounts == InitDocker /\ [][NextMounts]_vars

\* DockerSandbox.execute of execution i up to the first await of
\* getOrCreateContainer; when the handle is reused the call goes on in the same
\* turn and spawns `docker exec -i <handle> python3 -u -c code`
dockerExecute(i) ==
  /\ guests[i] = NoGuest
  /\ getOrCreateContainer(i, {SessionCwd})
  /\ guests' = IF acquires'[i] = "idle"
                 THEN [guests EXCEPT ![i] = [in |-> lastGot', at |-> now, killed |-> FALSE]]
                 ELSE guests

\* DockerSandbox.execute resumes when `docker run` has settled: `docker exec` is
\* spawned in the new container, or the failure of getOrCreateContainer is thrown
dockerExecuteCreated(i) ==
  /\ containerCreated(i)
  /\ guests' = IF containers' # containers
                 THEN [guests EXCEPT ![i] = [in |-> containers', at |-> now, killed |-> FALSE]]
                 ELSE guests

\* proc.on("exit") of DockerSandbox.execute: the `docker exec` process of
\* execution i is gone
dockerExit(i) ==
  /\ guests[i] # NoGuest
  /\ guests' = [guests EXCEPT ![i] = NoGuest]
  /\ UNCHANGED <<callerVars, rpcVars, histVars, utilVars, timerVars, containerVars, now>>

\* the setTimeout callback of DockerSandbox.execute, EXECUTION_TIMEOUT after
\* the spawn: SIGTERM to `docker exec` and the promise is rejected
dockerTimeout(i) ==
  /\ guests[i] # NoGuest
  /\ ~guests[i].killed
  /\ now >= guests[i].at + EXECUTION_TIMEOUT
  /\ guests' = [guests EXCEPT ![i].killed = TRUE]
  /\ UNCHANGED <<callerVars, rpcVars, histVars, utilVars, timerVars, containerVars, now>>

\* the wall clock advances once the timeout callbacks that are due have run
ClockTick ==
  /\ \A i \in Slots : ~ENABLED dockerTimeout(i)
  /\ Advance

NextShared ==
  \/ \E i \in Slots : dockerExecute(i)
  \/ \E i \in Slots : acquireStopped(i)
  \/ \E i \in Slots : dockerExecuteCreated(i)
  \/ \E i \in Slots : dockerExit(i)
  \/ \E i \in Slots : dockerTimeout(i)
  \/ cleanupExpired
  \/ reaperStopped
  \/ ClockTick

\* the Docker backend of a live session under executions that overlap
SpecShared == InitDocker /\ [][NextShared]_vars

\* the session_shutdown handler up to `await sandboxManager.cleanup()`; when
\* cleanup() awaits no `docker stop` the handler runs to its end: sandboxManager,
\* codeExecutor and toolRegistry are set to null
sessionShutdown ==
  /\ shutdown.pc = "none"
  /\ cleanupCall
  /\ shutdown' = [pc |-> IF cleanupPc' = "idle" THEN "done" ELSE "cleaning",
                  busy |-> pc # "idle"]

\* `docker stop` has settled: cleanup() returns and the session_shutdown
\* handler sets sandboxManager, codeExecutor and toolRegistry to null
sessionShutdownDone ==
  /\ shutdown.pc = "cleaning"
  /\ cleanupReturns
  /\ shutdown' = [shutdown EXCEPT !.pc = "done"]

\* what the code_execution tool throws when codeExecutor is null
NotInitialized == [kind |-> "error", text |-> "Code executor not initialized"]

\* the execute of the code_execution tool called while codeExecutor is null
codeExecutionRefused ==
  /\ ~codeExecutorSet
  /\ pc = "idle"
  /\ reply = NoReply
  /\ reply' = NotInitialized
  /\ UNCHANGED <<backend, pc, signal, abortListener, proc, killTimer, now, startedAt,
                 result, nextId, linesRead, stderrRead, abortedEarly, lastLine, toolsMap,
                 registry, utilVars, containerVars, invocation, guests>>
  /\ UNCHANGED <<rpcVars, histVars, timerVars>>

NextShutdown ==
  \/ execute
  \/ OnLine
  \/ OnExit
  \/ StdioClose
  \/ executeReturn
  \/ executeThrow
  \/ codeExecutionReturn
  \/ codeExecutionRefused
  \/ \E i \in Slots : acquireBegin(i)
  \/ \E i \in Slots : acquireCreated(i)
  \/ sessionShutdown
  \/ sessionShutdownDone

\* a session with one code_execution call, uses of its sandbox backend and the
\* session_shutdown event
SpecShutdown == InitSandbox /\ [][NextShutdown]_vars

\* ------------------------------------------- SandboxManager.execute
\* createSandbox on any host
createSandboxProbe == createSandboxOn(DockerHosts)

\* what no step of a SandboxManager.execute call changes, the container apart
calleeFrame == <<backend, pc, abortListener, killTimer, result, nextId, abortedEarly,
                 lastLine, toolsMap, registry, reply, guests>>

\* a promise that takes every resolve or reject, not only the first
settleOverwrites(promise, outcome) == outcome

\* resolve or reject of the call's promise: only the first one counts
settle(promise, outcome) == IF promise.state = "pending" THEN outcome ELSE promise

\* an exit handler that reports a failed run by its stderr text alone
exitOutcomeStderrOnly(code, out, err) ==
  IF code = "0"
    THEN [state |-> "resolved", value |-> out]
    ELSE [state |-> "rejected",
          value |-> IF err # "" THEN err ELSE "Process exited with code " \o code]

\* the exit handler's outcome: resolve(stdout) on code 0, else
\* reject(stderr || stdout || `Process exited with code ${code}`)
exitOutcome(code, out, err) ==
  IF code = "0"
    THEN [state |-> "resolved", value |-> out]
    ELSE [state |-> "rejected",
          value |-> IF err # "" THEN err
                    ELSE IF out # "" THEN out
                    ELSE "Process exited with code " \o code]

\* the message of the 'error' handler of each backend
spawnErrorText(b) ==
  (IF b = "docker" THEN "Failed to execute in Docker: "
                   ELSE "Failed to spawn Python process: ") \o "spawn ENOENT"

\* `Execution timed out after ${EXECUTION_TIMEOUT / 1000} seconds`
timeoutText ==
  "Execution timed out after " \o ToString(EXECUTION_TIMEOUT \div 1000) \o " seconds"

Rejected(message) == [state |-> "rejected", value |-> message]

\* the 5 s SIGKILL timer that only SubprocessSandbox arms after its SIGTERM
graceTimers(b, t) == IF b = "subprocess" THEN {t + KILL_GRACE} ELSE {}

\* DockerSandbox.execute: `await this.getOrCreateContainer(cwd)` begins
executeAcquire ==
  /\ invocation.phase = "none"
  /\ acquired = 0
  /\ acquireBegin(1)

\* DockerSandbox.execute: getOrCreateContainer threw, execute rejects
executeAcquireFailed ==
  /\ backend = "docker"
  /\ invocation.phase = "none"
  /\ acquired = 1 /\ NoAcquireInProgress /\ lastGot = NoContainer
  /\ invocation' = [invocation EXCEPT
                      !.phase = "refused",
                      !.promise = Rejected("Failed to create Docker container: "
                                             \o "docker run failed")]
  /\ UNCHANGED <<proc, signal, now, startedAt, linesRead, stderrRead>>
  /\ UNCHANGED <<calleeFrame, rpcVars, histVars, utilVars, timerVars, containerVars>>

\* the executor of the promise SandboxManager.execute returns: spawn, the
\* timeout, the abort handler and the process handlers
sandboxExecute ==
  /\ invocation.phase = "none"
  /\ \/ backend = "subprocess"
     \/ backend = "docker" /\ acquired = 1 /\ NoAcquireInProgress
          /\ lastGot # NoContainer
  /\ startedAt' = now
  /\ IF signal = "aborted"
       THEN \* proc.kill("SIGTERM"); reject(...); return
            /\ proc' = kill([state |-> "running",
                             where |-> IF backend = "docker" THEN "container" ELSE "host",
                             exitCode |-> null, stdinDestroyed |-> FALSE,
                             stdioOpen |-> TRUE, signals |-> <<>>], "SIGTERM")
            /\ invocation' = [invocation EXCEPT
                                !.phase = "started", !.timeoutId = TRUE,
                                !.promise = Rejected("Execution aborted")]
       ELSE /\ proc' = [state |-> "running",
                        where |-> IF backend = "docker" THEN "container" ELSE "host",
                        exitCode |-> null, stdinDestroyed |-> FALSE,
                        stdioOpen |-> TRUE, signals |-> <<>>]
            /\ invocation' = [invocation EXCEPT
                                !.phase = "started", !.timeoutId = TRUE,
                                !.abortHandler = (signal = "idle"),
                                !.handlers = TRUE]
  /\ UNCHANGED <<signal, now, linesRead, stderrRead>>
  /\ UNCHANGED <<calleeFrame, rpcVars, histVars, utilVars, timerVars, containerVars>>

\* proc.stdout 'data'
sandboxStdout ==
  /\ invocation.handlers
  /\ proc.stdioOpen
  /\ linesRead < MaxLines
  /\ linesRead' = linesRead + 1
  /\ invocation' = [invocation EXCEPT !.stdout = @ \o "out"]
  /\ UNCHANGED <<proc, signal, now, startedAt, stderrRead>>
  /\ UNCHANGED <<calleeFrame, rpcVars, histVars, utilVars, timerVars, containerVars>>

\* proc.stderr 'data'
sandboxStderr ==
  /\ invocation.handlers
  /\ proc.stdioOpen
  /\ stderrRead < MaxStderr
  /\ stderrRead' = stderrRead + 1
  /\ invocation' = [invocation EXCEPT !.stderr = @ \o "Err"]
  /\ UNCHANGED <<proc, signal, now, startedAt, linesRead>>
  /\ UNCHANGED <<calleeFrame, rpcVars, histVars, utilVars, timerVars, containerVars>>

\* proc 'exit': the handler, when registered, clears the timeout, removes the
\* abort handler and settles unless `killed`
sandboxExit ==
  /\ invocation.phase = "started"
  /\ proc.state = "running"
  /\ \E code \in {"0", "1", null} :
       /\ proc' = [proc EXCEPT !.state = "exited", !.exitCode = code,
                               !.stdinDestroyed = TRUE]
       /\ invocation' =
            IF invocation.handlers
              THEN [invocation EXCEPT
                      !.timeoutId = FALSE, !.abortHandler = FALSE,
                      !.promise = IF invocation.killed THEN @
                                  ELSE settle(@, exitOutcome(code, invocation.stdout,
                                                             invocation.stderr))]
              ELSE invocation
  /\ UNCHANGED <<signal, now, startedAt, linesRead, stderrRead>>
  /\ UNCHANGED <<calleeFrame, rpcVars, histVars, utilVars, timerVars, containerVars>>

\* the process's stdout and stderr reach end of file after it has exited
sandboxStdioClose ==
  /\ invocation.phase = "started"
  /\ proc.state = "exited"
  /\ proc.stdioOpen
  /\ proc' = [proc EXCEPT !.stdioOpen = FALSE]
  /\ UNCHANGED <<invocation, signal, now, startedAt, linesRead, stderrRead>>
  /\ UNCHANGED <<calleeFrame, rpcVars, histVars, utilVars, timerVars, containerVars>>

\* proc 'error': the program could not be spawned
sandboxError ==
  /\ invocation.phase = "started"
  /\ invocation.handlers
  /\ proc.state = "running"
  /\ linesRead = 0 /\ stderrRead = 0
  /\ proc' = [proc EXCEPT !.state = "failed", !.stdinDestroyed = TRUE,
                          !.stdioOpen = FALSE]
  /\ invocation' = [invocation EXCEPT
                      !.timeoutId = FALSE, !.abortHandler = FALSE,
                      !.promise = IF invocation.killed THEN @
                                  ELSE settle(@, Rejected(spawnErrorText(backend)))]
  /\ UNCHANGED <<signal, now, startedAt, linesRead, stderrRead>>
  /\ UNCHANGED <<calleeFrame, rpcVars, histVars, utilVars, timerVars, containerVars>>

\* the callback of timeoutId
sandboxTimeout ==
  /\ invocation.timeoutId
  /\ now >= startedAt + EXECUTION_TIMEOUT
  /\ IF ~invocation.killed
       THEN /\ proc' = kill(proc, "SIGTERM")
            /\ invocation' = [invocation EXCEPT
                                !.timeoutId = FALSE, !.killed = TRUE,
                                !.grace = @ \cup graceTimers(backend, now),
                                !.promise = settle(@, Rejected(timeoutText))]
       ELSE /\ invocation' = [invocation EXCEPT !.timeoutId = FALSE]
            /\ UNCHANGED proc
  /\ UNCHANGED <<signal, now, startedAt, linesRead, stderrRead>>
  /\ UNCHANGED <<calleeFrame, rpcVars, histVars, utilVars, timerVars, containerVars>>

\* the signal's 'abort' event; abortHandler runs if it is registered
sandboxAbort ==
  /\ signal = "idle"
  /\ signal' = "aborted"
  /\ IF invocation.abortHandler /\ ~invocation.killed
       THEN /\ proc' = kill(proc, "SIGTERM")
            /\ invocation' = [invocation EXCEPT
                                !.abortHandler = FALSE, !.killed = TRUE,
                                !.timeoutId = FALSE,
                                !.grace = @ \cup graceTimers(backend, now),
                                !.promise = settle(@, Rejected("Execution aborted"))]
       ELSE /\ invocation' = [invocation EXCEPT !.abortHandler = FALSE]
            /\ UNCHANGED proc
  /\ UNCHANGED <<now, startedAt, linesRead, stderrRead>>
  /\ UNCHANGED <<calleeFrame, rpcVars, histVars, utilVars, timerVars, containerVars>>

\* the callback of a 5 s timer armed by the timeout or the abort handler
sandboxGrace ==
  /\ \E t \in invocation.grace :
       /\ now >= t
       /\ invocation' = [invocation EXCEPT !.grace = @ \ {t}]
  /\ proc' = IF proc.exitCode = null THEN kill(proc, "SIGKILL") ELSE proc
  /\ UNCHANGED <<signal, now, startedAt, linesRead, stderrRead>>
  /\ UNCHANGED <<calleeFrame, rpcVars, histVars, utilVars, timerVars, containerVars>>

\* instants the clock of a call stops at: its pending timers
CallInstants ==
  invocation.grace
    \cup (IF invocation.timeoutId THEN {startedAt + EXECUTION_TIMEOUT} ELSE {})

\* the wall clock advances to the next instant; a due timer runs first
callTick ==
  /\ \A t \in CallInstants : now < t
  /\ LET later == {t \in CallInstants : t <= MaxNow}
     IN /\ later # {}
        /\ now' = CHOOSE t \in later : \A u \in later : t <= u
  /\ UNCHANGED <<invocation, proc, signal, startedAt, linesRead, stderrRead>>
  /\ UNCHANGED <<calleeFrame, rpcVars, histVars, utilVars, timerVars, containerVars>>

NextBackend ==
  \/ executeAcquire
  \/ acquireCreated(1)
  \/ executeAcquireFailed
  \/ sandboxExecute
  \/ sandboxStdout
  \/ sandboxStderr
  \/ sandboxExit
  \/ sandboxStdioClose
  \/ sandboxError
  \/ sandboxTimeout
  \/ sandboxAbort
  \/ sandboxGrace
  \/ callTick

\* one SandboxManager.execute call on either backend
SpecBackend == InitSandbox /\ [][NextBackend]_vars

NextSession ==
  \/ createSandboxProbe
  \/ NextBackend

\* a session from its createSandbox to the end of one SandboxManager.execute
SpecSession == Init /\ [][NextSession]_vars

\* lines of the scripts explored under SpecLines: what print() may write, and
\* `complete`
PrintLines ==
  { l \in GuestLines :
      \/ l.json \in {"throws", "null", "other"}
      \/ l.json = "msg" /\ l.msg.type = "complete" }

OnPrintLine == OnLineFrom(PrintLines)

\* executions of scripts that print values of every shape
NextLines ==
  \/ execute
  \/ OnPrintLine
  \/ OnExit
  \/ StdioClose
  \/ executeReturn
  \/ executeThrow

SpecLines == InitCalls /\ [][NextLines]_vars

\* lines of the scripts explored under SpecOutput: printed lines and declared
\* outputs whose lengths add up to less than, exactly, and more than
\* MAX_OUTPUT_SIZE
LongLines ==
  { Line(repeat("a", n), "throws", NoMsg) :
      n \in {1, MAX_OUTPUT_SIZE \div 2 - 1, MAX_OUTPUT_SIZE \div 2, MAX_OUTPUT_SIZE + 1} }
    \cup { Line("{complete}", "msg", Msg("complete", "", repeat("b", n), "", 0)) :
             n \in {0, 1, MAX_OUTPUT_SIZE \div 2, MAX_OUTPUT_SIZE, MAX_OUTPUT_SIZE + 1} }

OnLongLine == OnLineFrom(LongLines)

NextOutput ==
  \/ execute
  \/ OnLongLine
  \/ OnExit
  \/ StdioClose
  \/ executeReturn
  \/ executeThrow
  \/ codeExecutionReturn

\* executions of scripts that print and return long texts, up to what the
\* code_execution tool hands back
SpecOutput == InitCalls /\ [][NextOutput]_vars

\* lines of the scripts explored under SpecNotices: console text, tool calls,
\* progress and update notices and `complete`
ObservedLines ==
  { l \in GuestLines :
      \/ l.json = "throws" /\ l.raw # ""
      \/ l.json = "msg" /\ l.msg.type \in {"tool_call", "execution_progress",
                                           "update", "complete"} }

OnObservedLine == OnLineObserved(ObservedLines, ObserverOutcomes)

NextNotices ==
  \/ execute
  \/ OnObservedLine
  \/ DispatchFinish
  \/ OnExit
  \/ StdioClose
  \/ executeReturn
  \/ executeThrow

\* executions whose progress observer may fail
SpecNotices == InitCalls /\ [][NextNotices]_vars

\* executions of scripts that print and finish
Next ==
  \/ createSandbox
  \/ execute
  \/ OnLine
  \/ OnStderr
  \/ OnExit
  \/ OnProcError
  \/ StdioClose
  \/ abort
  \/ KillTimerFire
  \/ Tick
  \/ executeReturn
  \/ executeThrow

Spec == Init /\ [][Next]_vars


\* ------------------------------------------------------- tool-wrapper.ts
\* A schema as generateToolWrapper reads it: `type`, the members of `anyOf`
\* (<<>> when the schema has none), the `items` of an array (<<>> when it has
\* none) and `description`.
Leaf(t) == [type |-> t, anyOf |-> <<>>, items |-> <<>>, description |-> ""]
AnyOf(members) == [type |-> "", anyOf |-> members, items |-> <<>>, description |-> ""]
ArrayOf(item) == [type |-> "array", anyOf |-> <<>>, items |-> <<item>>, description |-> ""]

\* Array.prototype.join
RECURSIVE join(_, _)
join(seq, sep) ==
  IF seq = <<>> THEN ""
  ELSE IF Len(seq) = 1 THEN seq[1]
  ELSE seq[1] \o sep \o join(Tail(seq), sep)

\* desc.split("\n").join("\n    ")
RECURSIVE indentLines(_)
indentLines(desc) ==
  IF desc = "" THEN ""
  ELSE LET c == SubSeq(desc, 1, 1)
       IN (IF c = "\n" THEN "\n    " ELSE c) \o indentLines(SubSeq(desc, 2, Len(desc)))

\* schemaToPythonType; the type of the items of an array is that of a schema
\* without items of its own
itemToPythonType(schema) ==
  CASE schema.type = "string" -> "str"
    [] schema.type = "number" -> "float"
    [] schema.type = "integer" -> "int"
    [] schema.type = "boolean" -> "bool"
    [] schema.type = "array" -> "List[Any]"
    [] schema.type = "object" -> "Dict[str, Any]"
    [] schema.type = "null" -> "None"
    [] OTHER -> "Any"

schemaToPythonType(schema) ==
  IF schema.type = "array"
    THEN "List[" \o (IF schema.items # <<>> THEN itemToPythonType(schema.items[1])
                                            ELSE "Any") \o "]"
    ELSE itemToPythonType(schema)

\* an isOptional that takes no schema for nullable
isOptionalNever(schema) == FALSE

\* isOptional: an anyOf one member of which has type null
isOptional(schema) ==
  IF schema.anyOf # <<>>
    THEN \E i \in DOMAIN schema.anyOf : schema.anyOf[i].type = "null"
    ELSE FALSE

\* extractNonNullSchema: the first member of anyOf whose type is not null
extractNonNullSchema(schema) ==
  IF schema.anyOf # <<>>
    THEN LET nonNull == SelectSeq(schema.anyOf, LAMBDA m : m.type # "null")
         IN IF nonNull # <<>> THEN nonNull[1] ELSE schema
    ELSE schema

\* one entry of paramList
paramEntry(tool, param) ==
  LET isOpt == param.name \notin tool.required \/ isOptional(param.schema)
      actualSchema == IF isOptional(param.schema)
                        THEN extractNonNullSchema(param.schema) ELSE param.schema
      pythonType == schemaToPythonType(actualSchema)
  IN IF isOpt THEN param.name \o ": Optional[" \o pythonType \o "] = None"
              ELSE param.name \o ": " \o pythonType

\* generateToolWrapper(tool)
generateToolWrapper(tool) ==
  LET params == tool.properties
      paramList == [i \in DOMAIN params |-> paramEntry(tool, params[i])]
      paramDocs == [i \in DOMAIN params |->
                      "        " \o params[i].name \o ": " \o params[i].schema.description]
      requiredParams == SelectSeq(paramList, LAMBDA e : ~includes(e, "= None"))
      optionalParams == SelectSeq(paramList, LAMBDA e : includes(e, "= None"))
      signature ==
        "async def " \o tool.name \o "("
          \o (IF requiredParams # <<>>
                THEN "\n    " \o join(requiredParams, ",\n    ")
                       \o (IF optionalParams # <<>>
                             THEN ",\n    *,\n    " \o join(optionalParams, ",\n    ")
                             ELSE "")
                ELSE IF optionalParams # <<>>
                  THEN "\n    *,\n    " \o join(optionalParams, ",\n    ")
                  ELSE "")
          \o "\n) -> str:"
      desc == IF tool.description # "" THEN tool.description
              ELSE "Execute " \o tool.name \o " tool"
      docstring ==
        "    \"\"\"\n    " \o indentLines(desc) \o "\n\n"
          \o (IF paramDocs # <<>> THEN "    Args:\n" \o join(paramDocs, "\n") \o "\n" ELSE "")
          \o "\n    Returns:\n        The tool result as a string\n    \"\"\""
      paramsDict ==
        IF params # <<>>
          THEN "{\n" \o join([i \in DOMAIN params |->
                                "        \"" \o params[i].name \o "\": " \o params[i].name],
                             ",\n")
                 \o ",\n    }"
          ELSE "{}"
      body ==
        "    result = await _rpc_call(\"" \o tool.name \o "\", " \o paramsDict \o ")\n"
          \o "    # Extract text from content array\n"
          \o "    if isinstance(result, list):\n"
          \o "        return \"\".join(c.get(\"text\", \"\") for c in result "
          \o "if isinstance(c, dict) and c.get(\"type\") == \"text\")\n"
          \o "    return str(result)"
  IN signature \o "\n" \o docstring \o "\n" \o body

\* a generator that numbers its output by the calls made before
generateToolWrappersNumbered(catalogue) ==
  "# " \o ToString(Len(wrapperCalls)) \o "\n"
    \o join([i \in DOMAIN catalogue |-> generateToolWrapper(catalogue[i])], "\n\n")

\* generateToolWrappers(tools)
generateToolWrappers(catalogue) ==
  "from typing import Optional, List, Dict, Any, Union" \o "\n\n"
    \o join([i \in DOMAIN catalogue |-> generateToolWrapper(catalogue[i])], "\n\n")

\* schemas of the parameters explored: plain, nullable union, union without
\* null, array
ParamSchemas ==
  { Leaf("string"), Leaf("integer"),
    AnyOf(<<Leaf("integer"), Leaf("null")>>),
    AnyOf(<<Leaf("string"), Leaf("integer")>>),
    ArrayOf(Leaf("string")) }
ParamNames == {"path", "limit"}
Params == { [name |-> n, schema |-> sch] : n \in ParamNames, sch \in ParamSchemas }

\* property lists of zero, one and two parameters, in both orders
PropertyLists ==
  { <<>> } \cup { <<a>> : a \in Params }
    \cup { <<a, b>> : a \in { q \in Params : q.name = "path" },
                      b \in { q \in Params : q.name = "limit" } }
    \cup { <<b, a>> : a \in { q \in Params : q.name = "path" },
                      b \in { q \in Params : q.name = "limit" } }

Names(props) == { props[i].name : i \in DOMAIN props }

\* the tools explored under SpecSignatures: every property list with every
\* required list
SchemaTools ==
  { [name |-> "read", description |-> "Read a file\nfrom disk",
     properties |-> props, required |-> req] :
      props \in PropertyLists, req \in SUBSET ParamNames }

SchemaCatalogues == { <<t>> : t \in { u \in SchemaTools : u.required \subseteq Names(u.properties) } }

\* the catalogues explored under SpecStubs
ReadTool ==
  [name |-> "read", description |-> "Read a file\nfrom disk",
   properties |-> << [name |-> "path", schema |-> Leaf("string")],
                     [name |-> "limit", schema |-> AnyOf(<<Leaf("integer"), Leaf("null")>>)] >>,
   required |-> {"path"}]
ListTool ==
  [name |-> "ls", description |-> "", properties |-> <<>>, required |-> {}]
StubCatalogues ==
  { <<>>, <<ReadTool>>, <<ListTool>>, <<ReadTool, ListTool>>, <<ListTool, ReadTool>> }

\* one call generateToolWrappers(tools) on a catalogue of `catalogues`, the
\* `limit`-th at most
callGenerateToolWrappers(catalogues, limit) ==
  /\ Len(wrapperCalls) < limit
  /\ \E catalogue \in catalogues :
       wrapperCalls' = Append(wrapperCalls,
                              [tools |-> catalogue,
                               source |-> generateToolWrappers(catalogue)])
  /\ UNCHANGED <<backend, pc, signal, abortListener, proc, killTimer, now, startedAt,
                 result, nextId, linesRead, stderrRead, abortedEarly, lastLine, toolsMap,
                 registry, truncArg, truncRet, invocation, reply, guests, piTools,
                 listing>>
  /\ UNCHANGED rpcVars
  /\ UNCHANGED histVars
  /\ UNCHANGED containerVars
  /\ UNCHANGED timerVars

generateForSchema == callGenerateToolWrappers(SchemaCatalogues, 1)

NextSignatures == generateForSchema

\* generateToolWrappers applied to one tool of every parameter shape
SpecSignatures == InitCalls /\ [][NextSignatures]_vars

generateAgain == callGenerateToolWrappers(StubCatalogues, MaxCalls)

NextStubs ==
  \/ generateAgain
  \/ interceptRegisterTool

\* generateToolWrappers called again and again while extensions register tools
SpecStubs == InitCalls /\ [][NextStubs]_vars

\* the execute function of a tool as pi.getAllTools() lists it
PiExecute == MaxGenerations + 1
\* the stand-in `async () => { throw ... execute function not available }`
Placeholder == 0

\* Map.set(name, value): the value of a present key is replaced in place, a
\* new key goes to the end
mapSet(entries, name, fn) ==
  IF \E k \in DOMAIN entries : entries[k].name = name
    THEN [k \in DOMAIN entries |->
            IF entries[k].name = name THEN [name |-> name, execute |-> fn]
            ELSE entries[k]]
    ELSE Append(entries, [name |-> name, execute |-> fn])

\* the first loop of getAllTools over the first k names of pi.getAllTools()
RECURSIVE fromPi(_)
fromPi(k) ==
  IF k = 0 THEN <<>>
  ELSE IF piTools[NameOrder[k]] = "absent" THEN fromPi(k - 1)
  ELSE mapSet(fromPi(k - 1), NameOrder[k],
              IF piTools[NameOrder[k]] = "callable" THEN PiExecute ELSE Placeholder)

\* this.tools after the first loop: a tool of pi that was never intercepted
\* and has an execute function is stored
adopted ==
  [n \in CallNames |->
     IF registry[n] = 0 /\ piTools[n] = "callable" THEN PiExecute ELSE registry[n]]

\* the second loop of getAllTools over the first k names of this.tools
RECURSIVE overridden(_, _)
overridden(k, stored) ==
  IF k = 0 THEN fromPi(Len(NameOrder))
  ELSE IF stored[NameOrder[k]] = 0 THEN overridden(k - 1, stored)
  ELSE mapSet(overridden(k - 1, stored), NameOrder[k], stored[NameOrder[k]])

\* a call of ToolRegistry.getAllTools()
callGetAllTools ==
  /\ registry' = adopted
  /\ listing' = overridden(Len(NameOrder), adopted)
  /\ UNCHANGED <<backend, pc, signal, abortListener, proc, killTimer, now, startedAt,
                 result, nextId, linesRead, stderrRead, abortedEarly, lastLine, toolsMap,
                 truncArg, truncRet, wrapperCalls, piTools, invocation, reply, guests>>
  /\ UNCHANGED <<rpcVars, histVars, containerVars, timerVars>>

\* a session in which pi lists tools of its own, with or without their
\* execute functions
InitCatalogue ==
  /\ backend = "subprocess"
  /\ SessionStart
  /\ truncArg = NoArg
  /\ truncRet = NoRet
  /\ wrapperCalls = <<>>
  /\ piTools \in [CallNames -> PiListings]
  /\ \A n \in CallNames : registry[n] # 0 => piTools[n] # "absent"
  /\ listing = <<>>
  /\ SandboxStart("subprocess")

NextCatalogue ==
  \/ interceptRegisterTool
  \/ callGetAllTools

\* registerTool and getAllTools calls in any order
SpecCatalogue == InitCatalogue /\ [][NextCatalogue]_vars

\* ================================================================= claims

\* ---------------------------------------------------------------------- C1
\* C1: an execution has at most one outcome.  Once the completion promise
\* has resolved or rejected, no later step (a second terminal message, the
\* process exit, a process error, an abort) changes its state or value, and
\* what execute returned or threw never changes afterwards and agrees with
\* the promise: a value only from a resolved promise, an error only from a
\* rejected one.
C1_SingleOutcome ==
  [][ /\ (completion.state # "pending" => completion' = completion)
      /\ (result.kind # "none" => result' = result)
      /\ (result'.kind = "value" => completion'.state = "resolved")
      /\ (result'.kind = "error" => completion'.state = "rejected") ]_vars

\* the guest sent `complete`, execute returned, and afterwards the process
\* exited with a non-zero code and the signal was aborted
C1_Witness ==
  /\ result.kind = "value"
  /\ proc.state = "exited" /\ proc.exitCode = "1"
  /\ signal = "aborted" /\ ~abortedEarly

\* ---------------------------------------------------------------------- C2
\* C2: never neither.  Once the guest process has exited and its output has
\* been read to the end, the completion promise has resolved or rejected -
\* also when the exit code is 0 or null and no terminal message was sent.
C2_ExitedImpliesSettled ==
  (proc.state = "exited" /\ ~proc.stdioOpen) => completion.state # "pending"

\* ---------------------------------------------------------------------- C3
\* C3: an execution started through CodeExecutor.execute that has no outcome
\* when the 270 s ceiling expires is terminated and fails: once the ceiling
\* and the 5 s termination grace have passed, no execution is still pending.
C3_NoExecutionPastCeiling ==
  (pc # "idle" /\ now >= startedAt + EXECUTION_TIMEOUT + KILL_GRACE)
    => completion.state # "pending"

\* ---------------------------------------------------------------------- C4
\* C4: when the signal was aborted before the execution had an outcome
\* (already before the channel was constructed, or while it was pending),
\* execute does not return a value: it throws an 'Execution aborted' error.
C4_AbortNeverSucceeds ==
  (abortedEarly /\ pc \in {"returned", "threw"})
    => (result.kind = "error" /\ includes(result.text, "Execution aborted"))

\* ---------------------------------------------------------------------- C5
\* C5: when the container backend was selected, the guest process of every
\* execution runs inside the session container, never directly on the host.
C5_ContainerBackendRunsInContainer ==
  (backend = "docker" /\ proc.state # "none") => proc.where = "container"


\* ---------------------------------------------------------------------- C6
LastOf(s) == s[Len(s)]

\* the step reads a tool_call naming a tool outside the catalogue
ReadsUnknownCall ==
  /\ Len(callsRead') = Len(callsRead) + 1
  /\ LastOf(callsRead').tool \notin tools

UnknownToolResult(call) ==
  [type |-> "tool_result", id |-> call.id, content |-> "[]",
   hasError |-> TRUE, error |-> "Unknown tool: " \o call.tool]

\* C6 as stated: on a tool_call naming an unknown tool the dispatcher is not
\* invoked, a tool_result with the request's id, empty content and the error
\* 'Unknown tool: <name>' is sent, and the completion promise is untouched.
C6_UnknownToolAnswered ==
  [][ ReadsUnknownCall =>
        /\ dispatched' = dispatched
        /\ inFlight' = inFlight
        /\ stdinWrites' = Append(stdinWrites, UnknownToolResult(LastOf(callsRead')))
        /\ completion' = completion ]_vars

\* C6 amended: the same, except that the tool_result is written only while
\* the guest's stdin is not destroyed; once it is destroyed nothing is written.
C6_UnknownToolAnsweredWhileStdinOpen ==
  [][ ReadsUnknownCall =>
        /\ dispatched' = dispatched
        /\ inFlight' = inFlight
        /\ stdinWrites' = IF proc.stdinDestroyed
                            THEN stdinWrites
                            ELSE Append(stdinWrites, UnknownToolResult(LastOf(callsRead')))
        /\ completion' = completion ]_vars

\* an unknown-tool error was written and the execution is still running
C6_Witness ==
  /\ \E i \in DOMAIN stdinWrites : stdinWrites[i].error = "Unknown tool: nope"
  /\ dispatched = {}
  /\ completion.state = "pending"
  /\ proc.state = "running"

\* ---------------------------------------------------------------------- C7
\* the step in which the dispatch of one request settles
DispatchSettles == Len(finished') = Len(finished) + 1

CallWithId(id) == CHOOSE c \in {callsRead[k] : k \in DOMAIN callsRead} : c.id = id

\* the tool_result the claim prescribes for a settled dispatch
ReplyMatchesOutcome(r, f) ==
  /\ r.type = "tool_result"
  /\ r.id = f.id
  /\ (f.outcome = "content" => ~r.hasError /\ r.content = ToolOutput(CallWithId(f.id)))
  /\ (f.outcome = "nocontent" => ~r.hasError /\ r.content = "[]")
  /\ (f.outcome \in {"throws", "undefined"} =>
        r.hasError /\ r.content = "[]" /\ r.error = FailureMessage(f.outcome))

\* C7 as stated: when a dispatch settles the host sends one tool_result with
\* the request's id - the dispatcher's content on success, an empty content
\* array and the failure's message on failure - and the execution keeps running.
C7_DispatchAnswered ==
  [][ DispatchSettles =>
        /\ completion' = completion
        /\ Len(stdinWrites') = Len(stdinWrites) + 1
        /\ ReplyMatchesOutcome(LastOf(stdinWrites'), LastOf(finished')) ]_vars

\* C7 amended: the same, except that the tool_result is written only while
\* the guest's stdin is not destroyed; once it is destroyed nothing is written.
C7_DispatchAnsweredWhileStdinOpen ==
  [][ DispatchSettles =>
        /\ completion' = completion
        /\ IF proc.stdinDestroyed
             THEN stdinWrites' = stdinWrites
             ELSE /\ Len(stdinWrites') = Len(stdinWrites) + 1
                  /\ SubSeq(stdinWrites', 1, Len(stdinWrites)) = stdinWrites
                  /\ ReplyMatchesOutcome(LastOf(stdinWrites'), LastOf(finished')) ]_vars

\* a failed dispatch was answered with its message and the execution runs on
C7_Witness ==
  /\ \E i \in DOMAIN stdinWrites :
       stdinWrites[i].hasError /\ stdinWrites[i].error = "tool failed"
  /\ completion.state = "pending"
  /\ proc.state = "running"

\* ---------------------------------------------------------------------- C8
\* the tool_result r is an answer to the request `call`
AnswersRequest(r, call) ==
  /\ r.id = call.id
  /\ IF call.tool \notin tools
       THEN r.hasError /\ r.error = "Unknown tool: " \o call.tool
       ELSE \/ ~r.hasError /\ r.content \in {ToolOutput(call), "[]"}
            \/ r.hasError /\ r.content = "[]" /\ r.error \in {FailureMessage(o) : o \in DispatchOutcomes}

\* C8: within one execution no two tool_result lines carry the same id, and
\* every tool_result written carries the id of a tool_call that was read
\* before it and is an answer to that request.
C8_ResultOncePerRequest ==
  /\ \A i, j \in DOMAIN stdinWrites : stdinWrites[i].id = stdinWrites[j].id => i = j
  /\ \A i \in DOMAIN stdinWrites :
       \E k \in DOMAIN callsRead : AnswersRequest(stdinWrites[i], callsRead[k])

\* two requests were read and each got its one tool_result
C8_Witness ==
  /\ Len(callsRead) = 2
  /\ Len(stdinWrites) = 2
  /\ {stdinWrites[i].id : i \in DOMAIN stdinWrites} = {1, 2}


\* ---------------------------------------------------------------------- C9
\* ids of the tool_result lines that answer dispatched requests, oldest first
DispatchReplyIds ==
  LET replies == SelectSeq(stdinWrites, LAMBDA r : r.id \in dispatched)
  IN [i \in DOMAIN replies |-> replies[i].id]

FinishedIds == [i \in DOMAIN finished |-> finished[i].id]

\* C9: tool calls are handled independently.  A pending dispatch never stops
\* the host from handling the next stdout line; every tool_result written is an
\* answer to the request that carries its id, whatever the order of arrival;
\* and the answers to dispatched requests are written in the order in which
\* the dispatches settled.
C9_IndependentCalls ==
  /\ (inFlight # {} /\ proc.stdioOpen /\ linesRead < MaxLines) => ENABLED OnLine
  /\ \A i \in DOMAIN stdinWrites :
       AnswersRequest(stdinWrites[i], CallWithId(stdinWrites[i].id))
  /\ DispatchReplyIds = SubSeq(FinishedIds, 1, Len(DispatchReplyIds))

\* two dispatches were in flight at once, the later request settled first and
\* both answers were written, the later request's first
C9_Witness ==
  /\ Len(stdinWrites) = 2
  /\ stdinWrites[1].id = 2 /\ stdinWrites[1].content = "[read:2]"
  /\ stdinWrites[2].id = 1 /\ stdinWrites[2].content = "[read:1]"
  /\ dispatched = {1, 2}

\* --------------------------------------------------------------------- C10
RECURSIVE JoinLines(_)
\* lines.join("\n")
JoinLines(lines) ==
  IF lines = <<>> THEN ""
  ELSE IF Len(lines) = 1 THEN lines[1]
  ELSE lines[1] \o "\n" \o JoinLines(Tail(lines))

\* the outputs a `complete` message of the guest can declare
DeclaredOutputs == {l.msg.text : l \in {t \in TerminalLines : t.msg.type = "complete"}}

\* C10: the text resolved on `complete` is every console line captured before
\* it (empty ones included), in arrival order and joined by newlines, then a
\* newline and the declared output; with no captured line it is the declared
\* output alone.
C10_FinalTextKeepsEveryLine ==
  [][ (completion.state = "pending" /\ completion'.state = "resolved") =>
        \E o \in DeclaredOutputs :
          completion'.value = IF captured = <<>> THEN o
                              ELSE JoinLines(captured) \o "\n" \o o ]_vars

\* ---------------------------------------------------------------------- C11
\* the 'line' event of this step carried a line that is not a tagged message
ReadsNonMessage == linesRead' = linesRead + 1 /\ lastLine'.json # "msg"

\* C11: every stdout line that is not a tagged message - unparseable text as
\* well as valid JSON such as a bare number, a quoted string, an array or an
\* object with a missing or unknown `type` - is appended to the captured
\* console text; it is never dropped and never settles the execution.
C11_NonMessageLineCaptured ==
  [][ReadsNonMessage =>
        /\ captured' = Append(captured, lastLine'.raw)
        /\ stdout' = AppendConsole(stdout, lastLine'.raw)
        /\ completion' = completion]_vars

\* ---------------------------------------------------------------------- C12
\* the 'line' event of this step carried a `complete` or an `error` message
ReadsTerminal ==
  /\ linesRead' = linesRead + 1
  /\ lastLine'.json = "msg"
  /\ lastLine'.msg.type \in {"complete", "error"}

\* the outcome a terminal message declares, given the console text so far
DeclaredBy(l, buf) ==
  IF l.msg.type = "complete"
    THEN [state |-> "resolved", value |-> FinalOutput(buf, l.msg)]
    ELSE [state |-> "rejected", value |-> GuestErrorText(l.msg)]

\* an outcome that some terminal message declared
MessageDeclared(c) ==
  \/ c.state = "resolved"
  \/ c.state = "rejected" /\ \E l \in TerminalLines :
        l.msg.type = "error" /\ c.value = GuestErrorText(l.msg)

\* C12: once the host has read a terminal message of the guest, the outcome
\* of the execution is the one a terminal message declared (success with the
\* final text, or failure with the message and the traceback verbatim),
\* whether the host handled the 'exit' event before or after the line and
\* whatever the exit code was; only an abort may come first.
C12_TerminalMessageDecides ==
  [][(ReadsTerminal /\ signal # "aborted") =>
        \/ completion.state = "pending" /\ completion' = DeclaredBy(lastLine', stdout)
        \/ completion.state # "pending" /\ completion' = completion
             /\ MessageDeclared(completion)]_vars

\* ---------------------------------------------------------------------- C13
\* this step is the 'exit' event with a code that is neither 0 nor null
ExitsNonZero ==
  /\ proc.state = "running" /\ proc'.state = "exited"
  /\ proc'.exitCode \notin {"0", null}

\* this step is the 'error' event of the child process
FailsToSpawn == proc.state = "running" /\ proc'.state = "failed"

\* C13: when the guest exits with a non-zero, non-null code N while the
\* execution is still unsettled (no terminal message came first), the
\* completion rejects with the captured stderr text, or with
\* 'Process exited with code N' when no stderr text was captured; when the
\* interpreter cannot be spawned it rejects with 'Process error: ' followed by
\* the spawn error's message.
C13_ExitAndSpawnFailureMessages ==
  [][/\ (ExitsNonZero /\ completion.state = "pending") =>
           /\ completion'.state = "rejected"
           /\ stderr # "" => completion'.value = stderr
           /\ stderr = "" =>
                completion'.value = "Process exited with code " \o proc'.exitCode
     /\ (FailsToSpawn /\ completion.state = "pending") =>
           /\ completion'.state = "rejected"
           /\ completion'.value = "Process error: spawn python3 ENOENT"]_vars

C13_Witness ==
  /\ proc.state = "exited" /\ proc.exitCode = "1"
  /\ stderr # ""
  /\ completion = [state |-> "rejected", value |-> stderr]

\* ---------------------------------------------------------------------- C20
\* C20: every failure of an execution is re-raised by CodeExecutor.execute with
\* one uniform wrapping: whatever the channel's error message m contains, the
\* thrown message is the fixed prefix followed by m, so that any traceback
\* text embedded in m is preserved.
C20_UniformWrapping ==
  pc = "threw" =>
    /\ result.kind = "error"
    /\ result.text = "Python execution error: " \o completion.value

\* ---------------------------------------------------------------------- C19
\* the 'line' event of this step carried a `tool_call`
ReadsToolCall ==
  /\ linesRead' = linesRead + 1
  /\ lastLine'.json = "msg"
  /\ lastLine'.msg.type = "tool_call"

\* C19: the tool set of an execution is the snapshot taken at its start: a
\* `tool_call` naming a tool that is not in the snapshot (registered later or
\* never) is answered as an unknown tool and not dispatched, and a
\* `tool_call` naming a tool of the snapshot is dispatched to the execute
\* function the snapshot captured, even if the tool was registered again
\* under the same name while the execution is in flight.
C19_SnapshotPinsTools ==
  [][ReadsToolCall =>
        LET m == lastLine'.msg
        IN IF toolsMap[m.tool] = 0
             THEN /\ m.id \notin dispatched'
                  /\ inFlight' = inFlight
                  /\ stdinWrites' = send(stdinWrites, UnknownToolReply(m), proc)
             ELSE \E req \in inFlight' \ inFlight :
                    /\ req.id = m.id
                    /\ req.tool = m.tool
                    /\ req.impl = toolsMap[m.tool]]_vars

\* ---------------------------------------------------------------------- C18
\* C18: truncateOutput returns its input unchanged when the input has at most
\* 100,000 characters (exactly 100,000 included); otherwise it returns exactly
\* the first 100,000 characters of the input followed by the fixed notice
\* that states the original length (150000 for 150,000 characters).
C18_TruncateAtCeiling ==
  truncRet.returned =>
    LET n == truncArg.head + truncArg.tail
    IN IF n <= 100000
         THEN truncRet.text = truncArg.text
         ELSE /\ truncRet.text =
                   repeat("a", truncArg.head) \o repeat("b", 100000 - truncArg.head)
                     \o "\n\n[Output truncated - showing first 100000 characters of "
                     \o ToString(n) \o "]"
              /\ n = 150000 =>
                   SubSeq(truncRet.text, 100001, Len(truncRet.text)) =
                     "\n\n[Output truncated - showing first 100000 characters of 150000]"

C18_Witness ==
  /\ truncRet.returned
  /\ Len(truncArg.text) = 150000
  /\ Len(truncRet.text) > 100000

\* ---------------------------------------------------------------------- C14
\* this step begins a getOrCreateContainer call
BeginsAcquire == acquired' = acquired + 1

\* this step issues `docker run`
IssuesDockerRun ==
  \E i \in Slots : acquires[i] # "creating" /\ acquires'[i] = "creating"

\* C14: in container mode, of two sequential acquires less than 270 s apart the
\* second returns the container the first returned, refreshes last-used and
\* creates no container; an acquire creates a container only when no earlier
\* one exists or the earlier one is past the idle window, and then the stale
\* container has been stopped before `docker run` is issued.
C14_SequentialAcquiresReuse ==
  [][/\ (BeginsAcquire /\ lastGot # NoContainer /\ now - lastUsed < EXECUTION_TIMEOUT) =>
           /\ lastGot' = lastGot
           /\ lastUsed' = now
           /\ \A i \in Slots : acquires'[i] = "idle"
           /\ containers' = containers
           /\ stops' = stops
     /\ IssuesDockerRun =>
           /\ lastGot = NoContainer \/ now - lastUsed >= EXECUTION_TIMEOUT
           /\ lastGot \notin running']_vars

\* ---------------------------------------------------------------------- C15
\* this step is a callback of the reaper timer
ReaperTicks == timerDue' = timerDue + REAPER_PERIOD

\* cleanup() has not been called
NotDisposed == cleanupsDone = 0 /\ cleanupPc = "idle"

\* C15: while the Docker backend is not disposed its reaper runs every 60 s;
\* a callback that finds the container idle for more than 270 s stops it,
\* and the handle is discarded when that stop returns; a callback that finds
\* the container idle for 270 s or less stops nothing.
C15_ReaperStopsOnlyExpired ==
  [][/\ (backend = "docker" /\ NotDisposed) =>
           (cleanupInterval /\ now <= timerDue /\ timerDue - now <= 60000)
     /\ ReaperTicks =>
           IF containerId # NoContainer /\ now - lastUsed > 270000
             THEN /\ stops'[containerId] = stops[containerId] + 1
                  /\ containerId \notin running'
                  /\ reaping' = reaping + 1
             ELSE /\ stops' = stops
                  /\ running' = running
                  /\ reaping' = reaping
     /\ reaping' < reaping => containerId' = NoContainer
     /\ reaping' > reaping => ReaperTicks]_vars

C15_Witness ==
  /\ reaping > 0
  /\ containerId # NoContainer
  /\ containerId \notin running
  /\ now - lastUsed > 270000
  /\ NotDisposed

\* ---------------------------------------------------------------------- C16
\* `docker run` commands awaited at this moment
CreationsInProgress == Cardinality({i \in Slots : acquires[i] = "creating"})

\* `docker stop` commands awaited at this moment
StopsInProgress ==
  Cardinality({i \in Slots : acquires[i] = "stopping"}) + reaping
    + (IF cleanupPc = "stopping" THEN 1 ELSE 0)

\* C16: the container backend serializes the creation and the teardown of its
\* container: at no moment are two creations in progress, nor two stops, and
\* overlapping acquires that find no live container end with one container
\* created for them, never two running side by side.
C16_CreationAndTeardownSerialized ==
  /\ CreationsInProgress <= 1
  /\ StopsInProgress <= 1
  /\ Cardinality(running) <= 1

\* ---------------------------------------------------------------------- C17
\* this step is a call of cleanup()
CleanupBegins ==
  cleanupPc = "idle" /\ (cleanupsDone' = cleanupsDone + 1 \/ cleanupPc' = "stopping")

\* this step is the return of a cleanup() call
CleanupReturns == cleanupsDone' = cleanupsDone + 1

\* the sandbox as a completed cleanup() leaves it
Disposed == cleanupsDone >= 1 /\ containerId = NoContainer /\ ~cleanupInterval

\* C17: cleanup() called twice in sequence, on either backend, does not fail:
\* the first call leaves no handle and no reaper timer; the second call, made
\* on the state the first one left, returns at once, issues no `docker stop`
\* (so no container is stopped twice), clears no timer and changes nothing.
C17_CleanupTwice ==
  [][/\ CleanupReturns => (containerId' = NoContainer /\ ~cleanupInterval')
     /\ ~cleanupInterval => ~cleanupInterval'
     /\ (CleanupBegins /\ Disposed) =>
           /\ CleanupReturns
           /\ cleanupPc' = "idle"
           /\ stops' = stops
           /\ running' = running
           /\ <<containerId, lastUsed, cleanupInterval, timerDue>>' =
                <<containerId, lastUsed, cleanupInterval, timerDue>>]_vars

C17_Witness ==
  /\ backend = "docker"
  /\ cleanupsDone = 2
  /\ containers = 1
  /\ stops[1] = 1
  /\ running = {}

\* ---------------------------------------------------------------------- C21
\* this step is the 'abort' event of the signal during an execution
AbortFires == signal = "idle" /\ signal' = "aborted" /\ proc.state # "none"

\* this step is the callback of the abort handler's 5 s timer
GraceExpires == killTimer.armed /\ ~killTimer'.armed

\* C21: when the signal is aborted during an execution the channel sends
\* SIGTERM to the guest process and rejects the still unsettled completion
\* with 'Execution aborted'; exactly 5 s later it sends SIGKILL if the process
\* has not exited, and sends nothing if it has.
C21_AbortTermThenKill ==
  [][/\ AbortFires =>
           /\ proc.state = "running" => proc'.signals = Append(proc.signals, "SIGTERM")
           /\ proc.state # "running" => proc'.signals = proc.signals
           /\ killTimer' = [armed |-> TRUE, at |-> now + 5000]
           /\ completion.state = "pending" =>
                completion' = [state |-> "rejected", value |-> "Execution aborted"]
     /\ killTimer.armed => now <= killTimer.at
     /\ GraceExpires =>
           /\ now = killTimer.at
           /\ proc.state = "running" => proc'.signals = Append(proc.signals, "SIGKILL")
           /\ proc.state # "running" => proc'.signals = proc.signals
     /\ proc'.signals # proc.signals => (AbortFires \/ GraceExpires)]_vars

C21_Witness ==
  /\ proc.signals = <<"SIGTERM", "SIGKILL">>
  /\ completion = [state |-> "rejected", value |-> "Execution aborted"]

\* ---- C22
Cancelled == invocation.promise = Rejected("Execution aborted")

\* the callback of the 270 s timeout runs
TimeoutExpires ==
  /\ invocation.timeoutId /\ ~invocation'.timeoutId
  /\ now >= startedAt + EXECUTION_TIMEOUT
  /\ proc'.state = proc.state
  /\ signal' = signal

\* C22: once an execution has been cancelled, a timeout that expires later
\* sends no further signal to the process, arms no further kill timer and
\* leaves the settled outcome as it is.
C22_CancellationIdempotent ==
  [][Cancelled /\ TimeoutExpires =>
       /\ proc'.signals = proc.signals
       /\ invocation'.grace = invocation.grace
       /\ invocation'.promise = invocation.promise]_vars

\* ---- C23
ProcessExits == proc.state = "running" /\ proc'.state = "exited"
ProcessFails == proc.state = "running" /\ proc'.state = "failed"
Unsettled == invocation.promise.state = "pending"

\* C23: on either backend an exit with code 0 resolves the call with the
\* captured standard output, any other exit rejects it with the captured
\* standard error or, when that is empty, with the standard output, a spawn
\* error rejects it with a message that says what failed, and a settled call
\* is never settled again.
C23_BackendsSameOutcome ==
  [][/\ (ProcessExits /\ Unsettled /\ proc'.exitCode = "0") =>
          invocation'.promise = [state |-> "resolved", value |-> invocation.stdout]
     /\ (ProcessExits /\ Unsettled /\ proc'.exitCode # "0") =>
          /\ invocation'.promise.state = "rejected"
          /\ invocation.stderr # "" => invocation'.promise.value = invocation.stderr
          /\ (invocation.stderr = "" /\ invocation.stdout # "") =>
               invocation'.promise.value = invocation.stdout
     /\ (ProcessFails /\ Unsettled) =>
          /\ invocation'.promise.state = "rejected"
          /\ includes(invocation'.promise.value, "Failed to ")
          /\ includes(invocation'.promise.value, "spawn ENOENT")
     /\ ~Unsettled => invocation'.promise = invocation.promise]_vars

C23_Witness ==
  /\ backend = "docker"
  /\ proc.exitCode = "1"
  /\ invocation.stderr = ""
  /\ invocation.promise = Rejected("out")

\* ---- C28
Settles == Unsettled /\ invocation'.promise.state # "pending"
CancelTexts == {timeoutText, "Execution aborted"}
AbortStep == signal = "idle" /\ signal' = "aborted"
StartsCancelled == invocation.phase = "none" /\ invocation'.phase = "started"
                     /\ signal = "aborted"

\* C28: a call that the timeout ends fails with 'Execution timed out after
\* 270 seconds', one that a cancellation ends fails with 'Execution aborted',
\* a call ended by the process (exit, spawn error, container failure) fails
\* or succeeds with neither of these texts, and a reported timeout or
\* cancellation is never replaced by another report.
C28_TimeoutAndAbortDistinct ==
  [][/\ (Settles /\ TimeoutExpires) => invocation'.promise = Rejected(timeoutText)
     /\ (Settles /\ (AbortStep \/ StartsCancelled)) =>
          invocation'.promise = Rejected("Execution aborted")
     /\ (Settles /\ ~TimeoutExpires /\ ~AbortStep /\ ~StartsCancelled) =>
          /\ invocation'.promise.value \notin CancelTexts
          /\ \/ ProcessExits
             \/ ProcessFails
             \/ invocation'.phase = "refused"
     /\ (invocation.promise.state = "rejected"
           /\ invocation.promise.value \in CancelTexts) =>
          invocation'.promise = invocation.promise]_vars

C28_Witness ==
  /\ invocation.promise = Rejected("Execution timed out after 270 seconds")
  /\ proc.state = "exited"
  /\ proc.exitCode = "1"
  /\ invocation.stderr # ""

\* ---- C24
\* C24: once CodeExecutor.execute has returned or thrown, the guest process
\* it spawned has exited (or failed to start) or the host has sent it a
\* termination signal.
C24_NoGuestLeftRunning ==
  pc \in {"returned", "threw"} =>
    \/ proc.state # "running"
    \/ proc.signals # <<>>

\* ---- C25
ReadsNotice ==
  /\ linesRead' = linesRead + 1
  /\ lastLine'.json = "msg"
  /\ lastLine'.msg.type \in {"execution_progress", "update"}

\* C25: handling an execution_progress or update message leaves the
\* completion, the captured console text and the tool calls in flight as they
\* were, whether the observer returns or throws; only the current line and
\* the observer's notifications change.
C25_NoticesLeaveCompletion ==
  [][ReadsNotice =>
       /\ completion' = completion
       /\ stdout' = stdout
       /\ inFlight' = inFlight
       /\ stdinWrites' = stdinWrites]_vars

\* ---- C29
ReadsConsole == linesRead' = linesRead + 1 /\ lastLine'.json = "throws"
ReadsComplete ==
  /\ linesRead' = linesRead + 1
  /\ lastLine'.json = "msg" /\ lastLine'.msg.type = "complete"
  /\ completion.state = "pending"
Joint(buf) == IF buf = "" THEN 0 ELSE 1

\* C29: console text grows by every captured line in full, however long it
\* already is; `complete` resolves with the whole console text, a newline
\* and the whole declared output; CodeExecutor.execute returns truncateOutput
\* of that text; and the code_execution tool hands the returned text on as it
\* is.
C29_TruncatedOnceAtTheEnd ==
  [][/\ ReadsConsole =>
          Len(stdout') = Len(stdout) + Joint(stdout) + Len(lastLine'.raw)
     /\ ReadsComplete =>
          /\ completion'.state = "resolved"
          /\ completion'.value =
               (IF stdout = "" THEN "" ELSE stdout \o "\n") \o lastLine'.msg.text
     /\ (pc = "awaiting" /\ pc' = "returned") =>
          result'.text = truncateOutput(completion.value)
     /\ (reply.kind = "none" /\ reply'.kind = "content" /\ result.text # "") =>
          reply'.text = result.text]_vars

C29_Witness ==
  /\ reply.kind = "content"
  /\ stdout # ""
  /\ Len(completion.value) > MAX_OUTPUT_SIZE
  /\ Len(reply.text) > MAX_OUTPUT_SIZE
  /\ reply.text = truncateOutput(completion.value)

\* ---- C30
\* C30: the container whose handle getOrCreateContainer(cwd) returns mounts
\* that cwd at /workspace, for a container just created and for a reused one.
C30_MountIsCallersCwd ==
  lastGot # NoContainer => mounts.of[lastGot] = mounts.got

Entry(line) ==
  LET body == SubSeq(line, 5, Len(line))
  IN IF body # "" /\ SubSeq(body, Len(body), Len(body)) = ","
       THEN SubSeq(body, 1, Len(body) - 1) ELSE body

\* the parameter list Python reads in the first stub of a source: the lines
\* between `async def name(` (the third line) and the first `) -> str:`
Entries(src) ==
  LET breaks == { i \in 1..Len(src) : SubSeq(src, i, i) = "\n" }
      break(k) == CHOOSE i \in breaks : Cardinality({ j \in breaks : j < i }) = k - 1
      line(k) == SubSeq(src, break(k - 1) + 1, break(k) - 1)
      last == CHOOSE k \in 4..Cardinality(breaks) :
                /\ line(k) = ") -> str:"
                /\ \A m \in 4..(k - 1) : line(m) # ") -> str:"
  IN [k \in 1..(last - 4) |-> Entry(line(k + 3))]

Declares(entry, name) ==
  /\ Len(entry) > Len(name) + 2
  /\ SubSeq(entry, 1, Len(name) + 2) = name \o ": "
HasDefault(entry) ==
  /\ Len(entry) > 7
  /\ SubSeq(entry, Len(entry) - 6, Len(entry)) = " = None"
Stars(entries) == { k \in DOMAIN entries : entries[k] = "*" }

\* Python's binding of a call that passes the arguments `given` by keyword
Accepted(entries, given) ==
  /\ \A name \in given : \E k \in DOMAIN entries : Declares(entries[k], name)
  /\ \A k \in DOMAIN entries :
       \/ entries[k] = "*"
       \/ HasDefault(entries[k])
       \/ \E name \in given : Declares(entries[k], name)

NullableUnion(schema) == \E m \in DOMAIN schema.anyOf : schema.anyOf[m].type = "null"
OptionalByRule(tool, param) ==
  param.name \notin tool.required \/ NullableUnion(param.schema)

\* C27: in the signature of a generated stub every declared parameter has one
\* entry; the entry has the default None exactly when the parameter is not in
\* the required list or its schema is a nullable union; the entries without
\* default come first and those with a default follow a `*`; Python accepts a
\* call that passes only the required parameters and rejects every call that
\* leaves one of them out.
C27_OptionalExactlyByRule ==
  \A c \in DOMAIN wrapperCalls :
    Len(wrapperCalls[c].tools) = 1 =>
      LET tool == wrapperCalls[c].tools[1]
          props == tool.properties
          entries == Entries(wrapperCalls[c].source)
          needed == { props[q].name : q \in { r \in DOMAIN props : ~OptionalByRule(tool, props[r]) } }
      IN /\ Cardinality(DOMAIN entries \ Stars(entries)) = Len(props)
         /\ Cardinality(Stars(entries)) <= 1
         /\ \A q \in DOMAIN props :
              LET at == { k \in DOMAIN entries : Declares(entries[k], props[q].name) }
              IN /\ Cardinality(at) = 1
                 /\ \A k \in at :
                      /\ HasDefault(entries[k]) <=> OptionalByRule(tool, props[q])
                      /\ HasDefault(entries[k]) => \E st \in Stars(entries) : st < k
                      /\ ~HasDefault(entries[k]) => \A st \in Stars(entries) : k < st
         /\ \A st \in Stars(entries) : st < Len(entries)
         /\ Accepted(entries, needed)
         /\ \A name \in needed : ~Accepted(entries, Names(props) \ {name})

C27_Witness ==
  /\ Len(wrapperCalls) = 1
  /\ Len(wrapperCalls[1].tools) = 1
  /\ wrapperCalls[1].tools[1].required = {"path", "limit"}
  /\ Entries(wrapperCalls[1].source) = <<"path: str", "*", "limit: Optional[int] = None">>

\* ---- C31
GraceCallback == \E t \in invocation.grace : t \notin invocation'.grace

\* C31: on either backend the timeout that ends a call sends SIGTERM to the
\* running process and arms the 5 s timer of the cancellation sequence, and
\* that timer sends SIGKILL when the process has not exited by then.
C31_TimeoutTermThenKill ==
  [][/\ (TimeoutExpires /\ ~invocation.killed) =>
          /\ proc.state = "running" => proc'.signals = Append(proc.signals, "SIGTERM")
          /\ (now + KILL_GRACE) \in invocation'.grace
     /\ (GraceCallback /\ proc.state = "running") =>
          proc'.signals = Append(proc.signals, "SIGKILL")]_vars

\* ---- C32
\* C32: createSandbox decides the backend once; the container backend is
\* decided only on a host where Docker is installed and its daemon runs, and
\* no call fails on container creation because Docker was not usable.
C32_BackendChosenOnceAndUsable ==
  [][/\ backend # "none" => backend' = backend
     /\ backend' = "docker" => dockerHost' = "usable"
     /\ invocation'.phase = "refused" => dockerHost' = "usable"]_vars

\* ---- C33
ReadIds == { callsRead[i].id : i \in DOMAIN callsRead }
Answered(id) ==
  \E i \in DOMAIN stdinWrites :
    stdinWrites[i].type = "tool_result" /\ stdinWrites[i].id = id

\* every tool_call read is answered in the end, unless stdin is gone, and a
\* call in flight has no answer yet
C33_AnsweredInTheEnd ==
  /\ \A id \in 1..MaxLines :
       [](id \in ReadIds => <>(Answered(id) \/ proc.stdinDestroyed))
  /\ [](\A req \in inFlight : ~Answered(req.id))

\* C33: while executeTool calls settle, every tool_call read is answered by
\* a tool_result with its id unless the guest's stdin is gone by then; a call
\* in flight has no answer yet; and no call is in flight once
\* CodeExecutor.execute has returned or thrown.
C33_EveryCallAnswered ==
  /\ C33_AnsweredInTheEnd
  /\ [](pc \in {"returned", "threw"} => inFlight = {})

\* C34: executions against the reusable container are not mutually excluded.
\* Whenever the handle is fresh and names a container with a guest program
\* running in it, any other execution of the session that starts now gets that
\* same handle and its guest program runs in that container too.
C34_NoMutualExclusion ==
  \A i \in Slots, j \in Slots :
    ( /\ i # j
      /\ guests[i].in = containerId
      /\ containerId # NoContainer
      /\ now - lastUsed < EXECUTION_TIMEOUT
      /\ guests[j] = NoGuest
      /\ acquires[j] = "idle"
      /\ acquired < MaxAcquires )
    => ENABLED (dockerExecute(j) /\ guests'[j].in = containerId)

\* two executions have their guest programs running in one running container
C34_Witness ==
  \E i \in Slots, j \in Slots :
    /\ i # j
    /\ guests[i] # NoGuest
    /\ guests[i].in = guests[j].in
    /\ guests[i].in \in running

\* no acquire, reaper stop or cleanup is awaiting anything
Quiescent ==
  /\ \A i \in Slots : acquires[i] = "idle"
  /\ reaping = 0
  /\ cleanupPc = "idle"

\* C35: in container mode every container that was created and not stopped is
\* the one the current handle names, whatever the interleaving of acquires,
\* reaper callbacks and cleanup calls; and once cleanup has completed and
\* nothing is in flight, no container is running.
C35_NoContainerUnreferenced ==
  /\ \A c \in running : c = containerId
  /\ (cleanupsDone > 0 /\ Quiescent) => running = {}

\* a `docker stop` of container c is issued in this step
Stopped(c) == stops'[c] > stops[c]

\* C36: neither the reaper nor the stale-handle replacement of
\* getOrCreateContainer stops a container in which an execution is still
\* running and has not timed out.
C36_BusyContainerNotExpired ==
  [][\A c \in 1..MaxAcquires, i \in Slots :
       (Stopped(c) /\ guests[i].in = c) => guests[i].killed]_vars

\* C37: once the outcome of an execution is fixed (`complete`, `error`,
\* abnormal exit or abort), no tool dispatch is started for it: a `tool_call`
\* line handled after that does not invoke the dispatcher.
C37_NoDispatchAfterOutcome ==
  [][completion.state # "pending" => dispatched' = dispatched]_vars

\* the first half of C38: once the session_shutdown handler has completed, a
\* code_execution call starts no guest process and fails with 'Code executor
\* not initialized'
C38_RefusedAfterShutdown ==
  [][shutdown.pc = "done" /\ pc = "idle" =>
       /\ pc' = "idle" /\ proc' = proc
       /\ reply' \in {reply, NotInitialized}]_vars

\* C38: after the session_shutdown handler has completed, a code_execution
\* call fails with 'Code executor not initialized' and starts no guest
\* process; and a call accepted while the shutdown was in progress has no
\* guest running once the sandbox has been cleaned up.
C38_ShutdownFencesExecutions ==
  /\ C38_RefusedAfterShutdown
  /\ [](~(shutdown.pc = "done" /\ ~shutdown.busy /\ proc.state = "running"))

\* the names of the tools the latest getAllTools call returned
Listed == { listing[k].name : k \in DOMAIN listing }

\* C39: every tool returned by getAllTools can be dispatched: a name is
\* returned at most once, and for every returned name executeTool finds an
\* entry of this.tools, so it invokes an execute function instead of throwing
\* 'Unknown tool'.
C39_ListedToolsDispatchable ==
  /\ \A k, l \in DOMAIN listing : listing[k].name = listing[l].name => k = l
  /\ \A name \in Listed : executeTool(name) # 0
====
